---------------------------- MODULE Spec2Model ----------------------------
(***************************************************************************)
(* Model of the alert ingestion / dispatch engine of OmnisPartner          *)
(* (app/modules/alertmanager).  Strings whose characters the code looks at *)
(* (alert codes, projects, project groups, host names, group filters) are  *)
(* sequences of one-character strings; strings that are only compared are  *)
(* TLA+ strings.  Python's None is the string "None" for atom-valued       *)
(* fields and the empty sequence for character strings (both are falsy in  *)
(* the code wherever the model uses them).                                 *)
(***************************************************************************)
EXTENDS Naturals, Sequences, FiniteSets, TLC

(***************************************************************************)
(* Bounds of the model.                                                    *)
(***************************************************************************)
\* number of pushes a behaviour of the cache scenario receives, one at a time
MaxPushes == 4
\* number of pushes a behaviour of the race scenario receives
MaxRacePushes == 2
\* largest reading of the wall clock (readings are 1..MaxClock)
MaxClock == 2
\* number of pushes a behaviour of the channel-dispatch scenario receives
MaxDispatchPushes == 1
\* number of pushes that can be in flight at the same time
MaxInFlight == 2
\* number of pushes a behaviour of the repeat-confirm scenario receives
MaxRepeatPushes == 3
\* number of send attempts a behaviour of the provider scenario makes
MaxAttempts == 3
\* largest reading of the clock in the provider scenario
MaxSendClock == 3
\* number of sends of the logging provider a behaviour follows
MaxLogged == 2
\* number of ticks of _resend_loop a behaviour follows
MaxTicks == 2
\* largest reading of the clock in the WeChat scenario
MaxWxClock == 2
\* number of messages sync_data_to_slave is called with in a behaviour
MaxSync == 3
\* number of tasks submit is called with in a behaviour
MaxTasks == 3
\* number of calls of kill_server_tasks in a behaviour
MaxKills == 1


\* stand-in for the safety margin of a token's expiry (300 seconds in
\* provider/wechat.py:96), in clock readings
TokenMargin == 1
\* stand-in for the throttle's window (timedelta(minutes=1) in
\* provider/base.py:51), in clock readings
SendWindow == 1
\* stand-in for AlertInfoCache.MAX_CACHE_SIZE (20_000 in cache/engine.py:18),
\* scaled down so that the bounded key space overflows it
MAX_CACHE_SIZE == 2

(***************************************************************************)
(* util/constants.py                                                       *)
(***************************************************************************)
FORBID_YES == "1"
FORBID_NO == "0"
FORBID_YES_INT == 1
FORBID_NO_INT == 0
CAN_NOT_USE == "1"
EVENT_TYPE_CREATE == "1"
EVENT_TYPE_RECOVER == "0"
IS_RECOVER_YES == "1"
IS_RECOVER_NO == "0"
CONFIRM_YES == "1"
CONFIRM_NO == "0"
ALERTITEM_NOTSHOW_YES == "1"
ALERTITEM_NOTSHOW_NO == "0"
MSG_SEND_FORBID_NOT_SEND == "1"
MSG_SEND_FORBID_NOT_SHOWANDSEND == "2"
\* MsgSendDefaultInfos.ALERTCODE_DEFAULT_BUSI ("BUSI000"), one letter here
ALERTCODE_DEFAULT_BUSI == <<"M">>

\* Python's int() on the one-digit strings the constants hold
int(digit) ==
    CASE digit = "0" -> 0 [] digit = "1" -> 1 [] digit = "2" -> 2

(***************************************************************************)
(* Character strings.                                                      *)
(***************************************************************************)
\* str.upper() on one character
UpperChar(c) ==
    CASE c = "a" -> "A" [] c = "l" -> "L" [] c = "m" -> "M" [] c = "p" -> "P"
      [] c = "q" -> "Q" [] c = "h" -> "H" [] c = "f" -> "F" [] c = "r" -> "R"
      [] OTHER -> c

\* str.lower() on one character
LowerChar(c) ==
    CASE c = "A" -> "a" [] c = "L" -> "l" [] c = "M" -> "m" [] c = "P" -> "p"
      [] c = "Q" -> "q" [] c = "H" -> "h" [] c = "F" -> "f" [] c = "R" -> "r"
      [] OTHER -> c

\* str.upper()
Upper(s) == [i \in 1..Len(s) |-> UpperChar(s[i])]

\* str.lower()
Lower(s) == [i \in 1..Len(s) |-> LowerChar(s[i])]

\* s.replace(c, ""): s without the occurrences of character c
RECURSIVE RemoveChar(_, _)
RemoveChar(s, c) ==
    IF s = <<>> THEN <<>>
    ELSE IF Head(s) = c THEN RemoveChar(Tail(s), c)
         ELSE <<Head(s)>> \o RemoveChar(Tail(s), c)

\* Python's `sub in s` on strings
Contains(s, sub) ==
    \E i \in 0..(Len(s) - Len(sub)) :
        Len(sub) <= Len(s) /\ SubSeq(s, i + 1, i + Len(sub)) = sub

\* a startswith that holds of every string
StartsWith_any(s, prefix) == TRUE

\* s.startswith(prefix)
StartsWith(s, prefix) ==
    Len(prefix) <= Len(s) /\ SubSeq(s, 1, Len(prefix)) = prefix

\* s.index(c) for a character that occurs in s (1-based position)
\* the position of the last c in s
IndexOf_last(s, c) == CHOOSE i \in 1..Len(s) : s[i] = c /\ \A j \in (i + 1)..Len(s) : s[j] # c

IndexOf(s, c) == CHOOSE i \in 1..Len(s) : s[i] = c /\ \A j \in 1..(i - 1) : s[j] # c

\* the characters of sequence s
Chars(s) == {s[i] : i \in 1..Len(s)}


(***************************************************************************)
(* util/enums.py: ChannelType                                              *)
(***************************************************************************)
\* the values of the ChannelType enumeration
ChannelTypeValues == {"1", "2", "3", "4", "5", "aliyun_phone", "9"}

\* ChannelType(value).name for a value of the enumeration
ChannelTypeName(v) ==
    CASE v = "1" -> "WEIXIN" [] v = "2" -> "QQ" [] v = "3" -> "DINGDING"
      [] v = "4" -> "MAIL" [] v = "5" -> "SHORTMSG"
      [] v = "aliyun_phone" -> "ALIYUN_PHONE" [] v = "9" -> "OTHERS"

\* ProviderRegistry.default(): the provider registered for each channel type
DefaultProviders ==
    [t \in {"WEIXIN", "DINGDING", "MAIL", "SHORTMSG", "ALIYUN_PHONE"} |->
        CASE t = "WEIXIN" -> "WeChatProvider" [] t = "DINGDING" -> "DingTalkProvider"
          [] t = "MAIL" -> "EmailProvider" [] t = "SHORTMSG" -> "SmsProvider"
          [] t = "ALIYUN_PHONE" -> "AliyunPhoneProvider"]

(***************************************************************************)
(* MetadataCache: the channels, rules, alert items and forbid rules the    *)
(* engine is booted with.  Read-only after Init.                           *)
(***************************************************************************)
\* domain/msg_channel.py with its defaults
MsgChannel(id, ctype, enum, invalid, del, group) ==
    [channel_id |-> id, channel_type |-> ctype, channelType |-> enum,
     is_invalid |-> invalid, is_del |-> del, mapper_monitor_group |-> group,
     msg_format |-> <<>>]

\* the template of the mail channel: "{HOST_NAME}:{ALERT_MSG}"
cMail ==
    [MsgChannel("c-mail", "4", "MAIL", "0", "0", <<>>)
        EXCEPT !.msg_format = <<"{HOST_NAME}", ":", "{ALERT_MSG}">>]
cWx == MsgChannel("c-wx", "1", "None", "0", "0", <<"[", "a", "l", "l", "]">>)
cQQ == MsgChannel("c-qq", "2", "None", "0", "0", <<"[", "A", "L", "L", "]">>)
cInv == MsgChannel("c-inv", "4", "MAIL", "1", "0", <<"[", "Q", "]">>)
cDel == MsgChannel("c-del", "3", "None", "0", "1", <<>>)
cGrpQ == MsgChannel("c-grpq", "3", "None", "0", "0", <<"[", "Q", "]">>)
cBad == MsgChannel("c-bad", "7", "None", "0", "0", <<>>)

\* domain/msg_send_rules.py with its defaults
MsgSendRules(forbid, recover_notsend, notshow, channels) ==
    [is_forbid |-> forbid, recover_msg_notsend |-> recover_notsend,
     alertitem_notshow |-> notshow, msgChannels |-> channels, msg_fmt |-> <<>>,
     repeat_send_interval |-> 0, repeat_send_interval_maxtime |-> 0]

\* AlertInfoCache._msg_send_rules: alert code -> rule
msg_send_rules ==
    (<<"M">> :> MsgSendRules(FORBID_NO, FORBID_NO_INT, 0, <<cMail, cInv, cGrpQ, cWx>>))
 @@ (<<"A">> :> MsgSendRules(FORBID_NO, FORBID_NO_INT, 1, <<cInv, cDel, cGrpQ>>))
 @@ (<<"L">> :> [MsgSendRules(FORBID_NO, FORBID_NO_INT, 0, <<cQQ, cBad, cMail>>)
                EXCEPT !.msg_fmt = <<"[", "{ALERT_CODE}", "]", "{STATU}">>])
 @@ (<<"F">> :> MsgSendRules(FORBID_YES, FORBID_YES_INT, 0, <<cMail>>))
 @@ (<<"R">> :> [MsgSendRules(FORBID_NO, FORBID_YES_INT, 0, <<cMail>>)
                EXCEPT !.repeat_send_interval = 1,
                       !.repeat_send_interval_maxtime = 2])
 @@ (<<"E">> :> MsgSendRules(FORBID_YES, FORBID_YES_INT, 0, <<>>))

\* AlertInfoCache._alertitems: the known alert codes (with their level)
alertitems ==
    [c \in {<<"M">>, <<"A">>, <<"L">>, <<"F">>, <<"R">>, <<"E">>, <<"N">>} |-> "1"]

\* domain/msg_send_forbid_obj.py
MsgSendForbidObj(beg, end, ftype, ips, hosts, channels, codes, projects) ==
    [begTime |-> beg, endTime |-> end, forbidType |-> ftype, ips |-> ips,
     hosts |-> hosts, channels |-> channels, alertCodes |-> codes,
     projects |-> projects]

\* AlertInfoCache._msg_send_forbid_objs, in load order
msg_send_forbid_objs ==
    << MsgSendForbidObj(1, 9, MSG_SEND_FORBID_NOT_SEND, {"10.0.0.2"}, {},
                        {"c-mail", "c-inv"}, {"NULL"}, {<<"P">>}),
       MsgSendForbidObj(2, 9, MSG_SEND_FORBID_NOT_SHOWANDSEND, {"NULL"}, {},
                        {"NULL"}, {<<"M">>, <<"A">>}, {<<"Q">>}),
       \* a rule that names no alert code
       MsgSendForbidObj(1, 9, MSG_SEND_FORBID_NOT_SEND, {"10.0.0.1"}, {},
                        {"c-wx"}, {}, {<<"P">>}),
       \* a rule for some of the records of the first rule
       MsgSendForbidObj(2, 9, MSG_SEND_FORBID_NOT_SHOWANDSEND, {"10.0.0.2"}, {},
                        {"c-qq"}, {<<"L">>}, {<<"P">>}) >>

\* AlertInfoCache.get_alertitem
get_alertitem(code) ==
    IF Upper(code) \in DOMAIN alertitems THEN alertitems[Upper(code)] ELSE "None"

\* AlertInfoCache.get_msg_send_rules: whether a rule exists for the code
has_msg_send_rules(code) == Upper(code) \in DOMAIN msg_send_rules

\* AlertInfoCache.get_msg_send_rules: the rule of a code that has one
get_msg_send_rules(code) == msg_send_rules[Upper(code)]

(***************************************************************************)
(* DedupCache (AlertInfoCache._tmp_messages): an OrderedDict, modelled as  *)
(* the sequence of its items from the oldest to the most recently touched. *)
(***************************************************************************)
\* AlertInfoCache._cache_key: f"{event_id}#{project}"
cache_key(event_id, project) == <<event_id, project>>

\* the keys of an OrderedDict
KeysOf(od) == {od[i].key : i \in 1..Len(od)}

\* the position of a key of the OrderedDict
PosOf(od, key) == CHOOSE i \in 1..Len(od) : od[i].key = key

\* od[key] = value without the move_to_end: a key already present keeps its
\* place in the order
SetInPlace(od, key, value) ==
    IF key \in KeysOf(od)
    THEN [od EXCEPT ![PosOf(od, key)] = [key |-> key, is_recover |-> value]]
    ELSE Append(od, [key |-> key, is_recover |-> value])

\* od[key] = value; od.move_to_end(key)
SetAndMoveToEnd(od, key, value) ==
    LET rest == SelectSeq(od, LAMBDA e : e.key # key)
    IN  Append(rest, [key |-> key, is_recover |-> value])

\* while len(od) > MAX_CACHE_SIZE: od.popitem(last=False)
RECURSIVE EvictOldest(_)
EvictOldest(od) ==
    IF Len(od) > MAX_CACHE_SIZE THEN EvictOldest(Tail(od)) ELSE od

\* add_tmp_message without the eviction loop
add_tmp_message_unbounded(od, event_id, project, is_recover) ==
    SetAndMoveToEnd(od, cache_key(event_id, project), is_recover)

\* AlertInfoCache.add_tmp_message
add_tmp_message(od, event_id, project, is_recover) ==
    EvictOldest(SetAndMoveToEnd(od, cache_key(event_id, project), is_recover))

\* a check_tmp_message that finds no key
check_tmp_message_unseen(od, event_id, project) == "None"

\* AlertInfoCache.check_tmp_message: "None", "True" or "False"
check_tmp_message(od, event_id, project) ==
    LET key == cache_key(event_id, project)
    IN  IF key \notin KeysOf(od) THEN "None"
        ELSE IF od[PosOf(od, key)].is_recover THEN "True" ELSE "False"

(***************************************************************************)
(* Ingestion: AlertItemRecord and the two parsers.  Times are clock        *)
(* readings 1, 2, ...; 0 is None / the empty field.                        *)
(***************************************************************************)
\* a timestamp field that datetime.strptime rejects
BadTime == 99

\* domain/alert_item_record.py: a record as the parsers construct it
AlertItemRecord(rid, event_id, code, project, project_group, event_type, hostip, hostname, add_time, alert_msg, recover_time, is_recover) ==
    [alertitem_record_id |-> rid, event_id |-> event_id, alertitem_code |-> code,
     project |-> project, project_group |-> project_group,
     event_type |-> event_type, hostip |-> hostip, hostname |-> hostname,
     add_time |-> add_time, alert_msg |-> alert_msg,
     recover_time |-> recover_time,
     is_recover |-> is_recover, is_confirm |-> CONFIRM_NO,
     record_statu |-> "0", comment |-> "", alertitem_notshow |-> 0,
     currentChannelType |-> "None", currentIsSendMsg |-> TRUE,
     forbidChannels |-> {}, forbidRuleType |-> "None",
     alert_msg_org |-> <<>>, alert_time |-> 0,
     msgJsoninfo |-> [present |-> FALSE, message |-> <<>>]]

\* the record slot of a push that holds no record
NoRecord ==
    AlertItemRecord(0, 0, <<>>, <<>>, <<>>, "None", "None", <<>>, 0, <<>>, 0,
                    IS_RECOVER_NO)

\* a _match_forbid for which "NULL" is a value like any other, which no
\* candidate equals
_match_forbid_nosentinel(values, candidate) ==
    IF values = {} \/ values = {"NULL"} THEN FALSE
    ELSE candidate \in values

\* AlertManagerService._match_forbid
_match_forbid(values, candidate) ==
    IF values = {} THEN FALSE
    ELSE IF values = {"NULL"} THEN TRUE
    ELSE candidate \in values

\* the body of the loop of _check_forbid_rules: does the forbid rule apply
ForbidApplies(forbid, record, now_ts) ==
    /\ forbid.begTime # 0 /\ forbid.endTime # 0
    /\ ~(forbid.begTime > now_ts \/ forbid.endTime < now_ts)
    /\ _match_forbid(forbid.ips, record.hostip)
    /\ _match_forbid(forbid.alertCodes, record.alertitem_code)
    /\ _match_forbid(forbid.projects, record.project)
    /\ ~(forbid.hosts # {} /\
         ~\E h \in forbid.hosts : Contains(Lower(record.hostname), Lower(h)))

\* AlertManagerService._check_forbid_rules: the loop over the forbid rules
\* from position i on (it has no break: every applying rule assigns)
RECURSIVE CheckForbidFrom(_, _, _, _)
CheckForbidFrom(forbids, i, record, now_ts) ==
    IF i > Len(forbids) THEN record
    ELSE IF ForbidApplies(forbids[i], record, now_ts)
         THEN CheckForbidFrom(forbids, i + 1,
                  [record EXCEPT !.forbidRuleType = forbids[i].forbidType,
                                 !.forbidChannels = forbids[i].channels],
                  now_ts)
         ELSE CheckForbidFrom(forbids, i + 1, record, now_ts)

\* AlertManagerService._check_forbid_rules
_check_forbid_rules(record, now_ts) ==
    CheckForbidFrom(msg_send_forbid_objs, 1, record, now_ts)

\* util.generate_event_id: the clock reading, formatted
generate_event_id(now_ts) == 100 + now_ts

\* the result of a parser: the exception it raised ("None": none) and its record
Parsed(exc, record) == [exc |-> exc, record |-> record]

\* a Zabbix line, as its "|"-separated fields
ZbxLine(nparts, event_id, hostname, hostip, alert_time, recover_time, event_type, group, alert_msg, note, disabled_in) ==
    [empty |-> FALSE, nparts |-> nparts, event_id |-> event_id,
     hostname |-> hostname, hostip |-> hostip, alert_time |-> alert_time,
     recover_time |-> recover_time, event_type |-> event_type, group |-> group,
     alert_msg |-> alert_msg, note |-> note, disabled_in |-> disabled_in]

\* AlertManagerService._gen_record_from_zabbix
_gen_record_from_zabbix(msg, now_ts, rid) ==
    LET disable_msg == msg.note /\ msg.disabled_in # "no"
        end == IndexOf(msg.group, "]")
        project == SubSeq(msg.group, 2, end - 1)
        alert_code == SubSeq(msg.alert_msg, 2, IndexOf(msg.alert_msg, "]") - 1)
        \* alert_msg_org is the whole line, a text of its own here
        record == [AlertItemRecord(rid, msg.event_id, Upper(alert_code),
                      Upper(project), msg.group, msg.event_type, msg.hostip,
                      msg.hostname, now_ts, msg.alert_msg, msg.recover_time,
                      IF msg.recover_time # 0 \/ disable_msg
                      THEN IS_RECOVER_YES ELSE IS_RECOVER_NO)
                   EXCEPT !.alert_msg_org = <<"<line>">>,
                          !.alert_time = msg.alert_time]
    IN  IF msg.empty THEN Parsed("MsgSendException", NoRecord)
        ELSE IF msg.nparts < 9 THEN Parsed("MsgSendException", NoRecord)
        ELSE IF disable_msg /\ msg.disabled_in # "first"
             THEN Parsed("Exception", NoRecord)
        ELSE IF msg.alert_time = BadTime \/ msg.recover_time = BadTime
             THEN Parsed("Exception", NoRecord)
        ELSE IF ~StartsWith(msg.group, <<"[">>) \/ "]" \notin Chars(msg.group)
             THEN Parsed("MsgSendException", NoRecord)
        ELSE IF ~StartsWith(msg.alert_msg, <<"[">>) \/ "]" \notin Chars(msg.alert_msg)
             THEN Parsed("MsgSendException", NoRecord)
        ELSE Parsed("None", _check_forbid_rules(record, now_ts))

\* a JSON payload: kind "empty", "notjson", "nondict" or "dict"
JsonMsg(kind, has_code, alertcode, srctype, project, hostname, hostip) ==
    [kind |-> kind, has_code |-> has_code, alertcode |-> alertcode,
     srctype |-> srctype, project |-> project, hostname |-> hostname,
     hostip |-> hostip, has_msg |-> FALSE, message |-> <<>>]

\* the values of the AlertSourceType enumeration
AlertSourceTypeValues == {"0", "1", "2", "3", "4", "8", "9", "-1"}

\* AlertManagerService._gen_record_from_json
_gen_record_from_json(json_msg, source_type, now_ts, rid) ==
    LET alert_code == Upper(IF json_msg.has_code THEN json_msg.alertcode
                            ELSE ALERTCODE_DEFAULT_BUSI)
        alert_source_type == IF json_msg.srctype = "absent" THEN source_type
                             ELSE json_msg.srctype
        project == Upper(json_msg.project)
        \* msg is absent (msg_map = {"message": None}, alert_msg None: the
        \* empty text here) or an object with a message; alert_msg_org is the
        \* payload as received, a text of its own here
        msg_map == [present |-> TRUE, message |-> json_msg.message]
        record == [AlertItemRecord(rid, generate_event_id(now_ts), alert_code,
                      project, <<"[">> \o project \o <<"]">>, EVENT_TYPE_CREATE,
                      json_msg.hostip, json_msg.hostname, now_ts,
                      json_msg.message, 0, IS_RECOVER_NO)
                   EXCEPT !.alert_msg_org = <<"<json>">>,
                          !.msgJsoninfo = msg_map]
    IN  IF json_msg.kind = "empty" THEN Parsed("MsgSendException", NoRecord)
        ELSE IF json_msg.kind = "notjson" THEN Parsed("MsgSendException", NoRecord)
        ELSE IF json_msg.kind = "nondict" THEN Parsed("Exception", NoRecord)
        ELSE IF alert_source_type = "" THEN Parsed("MsgSendException", NoRecord)
        ELSE IF alert_source_type \notin AlertSourceTypeValues
             THEN Parsed("Exception", NoRecord)
        ELSE IF get_alertitem(alert_code) = "None"
             THEN Parsed("MsgSendException", NoRecord)
        ELSE Parsed("None", _check_forbid_rules(record, now_ts))

(***************************************************************************)
(* MessageFormatter (msgformat/formatter.py).  A text is a sequence of     *)
(* pieces: single characters, words, and placeholders such as              *)
(* "{HOST_NAME}", each one piece.  The parsers set neither others nor      *)
(* host_business_name: both are None.                                      *)
(***************************************************************************)
\* str(value) for an integer, "" for None (0)
str_of(value) == IF value = 0 THEN <<>> ELSE <<ToString(value)>>

\* util.format_dot_datetime: "" for None, else the time as text
format_dot_datetime(value) == IF value = 0 THEN <<>> ELSE <<"t", ToString(value)>>

\* AlertMsgFormatter._status
_status(event_type) ==
    IF event_type = "0" THEN <<"RECOVER">>
    ELSE IF event_type = "1" THEN <<"PROBLEM">>
    ELSE <<"UNKNOWN">>

\* AlertMsgFormatter._title (the messages have one line of less than 120
\* characters)
_title(record) ==
    IF record.alert_msg # <<>> THEN record.alert_msg ELSE record.alertitem_code

\* AlertMsgFormatter._json_payload: json.dumps of the message map
_json_payload(record) ==
    IF ~record.msgJsoninfo.present THEN <<>>
    ELSE <<"{message:">> \o record.msgJsoninfo.message \o <<"}">>

\* record.alert_level: the level of the alert item, "-1" when it is unknown
alert_level(record) ==
    IF get_alertitem(record.alertitem_code) = "None" THEN <<"-1">>
    ELSE <<get_alertitem(record.alertitem_code)>>

\* text.replace(placeholder, value)
RECURSIVE replace(_, _, _)
replace(text, placeholder, value) ==
    IF text = <<>> THEN <<>>
    ELSE (IF Head(text) = placeholder THEN value ELSE <<Head(text)>>)
         \o replace(Tail(text), placeholder, value)

\* AlertMsgFormatter.format, lines 21-42: the placeholders with their values,
\* in the order of the dict
replacements(record, now_ts) ==
    << <<"{HOST_BUSI_NAME}", record.hostname>>,
       <<"{HOST_NAME}", record.hostname>>,
       <<"{HOST_IP}", <<record.hostip>> >>,
       <<"{ALERT_CODE}", record.alertitem_code>>,
       <<"{ALERT_TIME}", format_dot_datetime(record.alert_time)>>,
       <<"{RECOVER_TIME}", format_dot_datetime(record.recover_time)>>,
       <<"{ALERT_MSG}", IF record.alert_msg # <<>> THEN record.alert_msg
                        ELSE record.alert_msg_org>>,
       <<"{NOW}", format_dot_datetime(now_ts)>>,
       <<"{ALERT_LEVEL}", alert_level(record)>>,
       <<"{LOCATION}", <<>> >>,
       <<"{EVENT_ID}", str_of(record.event_id)>>,
       <<"{STATU}", _status(record.event_type)>>,
       <<"{TITLE}", _title(record)>>,
       <<"{PROJECT}", record.project>>,
       <<"{JSON_MESSGES}", _json_payload(record)>>,
       <<"{K8S_RESOURCE_NAME}", <<>> >>,
       <<"{K8S_RESOURCE_TYPE}", <<>> >>,
       <<"{NAMESPACE}", <<>> >>,
       <<"{HOSPITAL_NAME}", <<>> >>,
       <<"{DESCRIPTION}", <<>> >> >>

\* AlertMsgFormatter.format, lines 44-46: the replacements from position i on
RECURSIVE ReplaceFrom(_, _, _)
ReplaceFrom(formatted, pairs, i) ==
    IF i > Len(pairs) THEN formatted
    ELSE ReplaceFrom(replace(formatted, pairs[i][1], pairs[i][2]), pairs, i + 1)

\* a formatter that hands the template on as it is
format_unrendered(record, template, now_ts) ==
    IF template = <<>>
    THEN IF record.alert_msg # <<>> THEN record.alert_msg ELSE record.alert_msg_org
    ELSE template

\* AlertMsgFormatter.format
format(record, template, now_ts) ==
    IF template = <<>>
    THEN IF record.alert_msg # <<>> THEN record.alert_msg ELSE record.alert_msg_org
    ELSE ReplaceFrom(template, replacements(record, now_ts), 1)

\* _dispatch_channels, line 170:
\* msg_channel.msg_format or rules.msg_fmt or record.alert_msg_org
TemplateOf(record, rules, msg_channel) ==
    IF msg_channel.msg_format # <<>> THEN msg_channel.msg_format
    ELSE IF rules.msg_fmt # <<>> THEN rules.msg_fmt
    ELSE record.alert_msg_org

(***************************************************************************)
(* Dispatcher: the per-channel checks, the provider lookup and the         *)
(* exception handlers of service/core.py.                                  *)
(***************************************************************************)
\* the result of _is_channel_forbidden: its return value and the record it leaves
Checked(skip, record) == [skip |-> skip, record |-> record]

\* an _is_channel_forbidden that looks at the channel's validity before the
\* temporary forbid rule
_is_channel_forbidden_invalid_first(record, msg_channel) ==
    LET group == msg_channel.mapper_monitor_group
        normalized == RemoveChar(RemoveChar(group, "["), "]")
    IN  IF msg_channel.is_invalid = CAN_NOT_USE \/ msg_channel.is_del = CAN_NOT_USE
        THEN Checked(TRUE, [record EXCEPT !.record_statu = "2",
                                          !.comment = "NOT_SEND_CHANNEL_INVALID"])
        ELSE IF record.forbidChannels # {} /\ msg_channel.channel_id \in record.forbidChannels
        THEN Checked(TRUE, [record EXCEPT !.record_statu = "1",
                                          !.comment = "NOT_SEND_RULE_FORBID"])
        ELSE IF /\ group # <<>>
                /\ Lower(group) # <<"[", "a", "l", "l", "]">>
                /\ normalized # <<>>
                /\ ~Contains(record.project_group, normalized)
        THEN Checked(TRUE, [record EXCEPT !.record_statu = "3",
                                          !.comment = "NOT_SEND_PROVIDE_NO_GROUP"])
        ELSE Checked(FALSE, record)

\* AlertManagerService._is_channel_forbidden
_is_channel_forbidden(record, msg_channel) ==
    LET group == msg_channel.mapper_monitor_group
        normalized == RemoveChar(RemoveChar(group, "["), "]")
    IN  IF record.forbidChannels # {} /\ msg_channel.channel_id \in record.forbidChannels
        THEN Checked(TRUE, [record EXCEPT !.record_statu = "1",
                                          !.comment = "NOT_SEND_RULE_FORBID"])
        ELSE IF msg_channel.is_invalid = CAN_NOT_USE \/ msg_channel.is_del = CAN_NOT_USE
        THEN Checked(TRUE, [record EXCEPT !.record_statu = "2",
                                          !.comment = "NOT_SEND_CHANNEL_INVALID"])
        ELSE IF /\ group # <<>>
                /\ Lower(group) # <<"[", "a", "l", "l", "]">>
                /\ normalized # <<>>
                /\ ~Contains(record.project_group, normalized)
        THEN Checked(TRUE, [record EXCEPT !.record_statu = "3",
                                          !.comment = "NOT_SEND_PROVIDE_NO_GROUP"])
        ELSE Checked(FALSE, record)

\* msg_channel.channelType or ChannelType(msg_channel.channel_type):
\* the member's name, or "ValueError" when the value is no member
ResolveChannelType(msg_channel) ==
    IF msg_channel.channelType # "None" THEN msg_channel.channelType
    ELSE IF msg_channel.channel_type \in ChannelTypeValues
         THEN ChannelTypeName(msg_channel.channel_type)
         ELSE "ValueError"

\* ProviderRegistry.get: the registry after the lookup
RegistryAfterGet(registry, channel_type) ==
    IF channel_type \in DOMAIN registry THEN registry
    ELSE registry @@ (channel_type :> "LoggingProvider")

\* provider.send(event), as the dispatcher sees it: it returns ("ok") or raises.
\* LoggingProvider.send only logs; the BaseProvider subclasses raise
\* MsgSendException (throttle, resend window, configuration, failure reply)
\* or another exception (transport, malformed reply)
SendOutcomes(provider) ==
    IF provider = "LoggingProvider" THEN {"ok"}
    ELSE {"ok", "MsgSendException", "Exception"}

\* f"PROVIDER_FAIL_{channel_type.name}"
ProviderFailComment(name) ==
    CASE name = "WEIXIN" -> "PROVIDER_FAIL_WEIXIN" [] name = "QQ" -> "PROVIDER_FAIL_QQ"
      [] name = "DINGDING" -> "PROVIDER_FAIL_DINGDING"
      [] name = "MAIL" -> "PROVIDER_FAIL_MAIL"
      [] name = "SHORTMSG" -> "PROVIDER_FAIL_SHORTMSG"
      [] name = "ALIYUN_PHONE" -> "PROVIDER_FAIL_ALIYUN_PHONE"
      [] name = "OTHERS" -> "PROVIDER_FAIL_OTHERS"

\* f"PROVIDER_ERROR_{channel_type.name}"
ProviderErrorComment(name) ==
    CASE name = "WEIXIN" -> "PROVIDER_ERROR_WEIXIN" [] name = "QQ" -> "PROVIDER_ERROR_QQ"
      [] name = "DINGDING" -> "PROVIDER_ERROR_DINGDING"
      [] name = "MAIL" -> "PROVIDER_ERROR_MAIL"
      [] name = "SHORTMSG" -> "PROVIDER_ERROR_SHORTMSG"
      [] name = "ALIYUN_PHONE" -> "PROVIDER_ERROR_ALIYUN_PHONE"
      [] name = "OTHERS" -> "PROVIDER_ERROR_OTHERS"

\* the try/except around provider.send in _dispatch_channels: the record an
\* outcome of the send leaves
AfterSend(record, outcome, name) ==
    IF outcome = "MsgSendException"
    THEN [record EXCEPT !.record_statu = "9", !.comment = ProviderFailComment(name)]
    ELSE IF outcome = "Exception"
    THEN [record EXCEPT !.record_statu = "9", !.comment = ProviderErrorComment(name)]
    ELSE record

\* a decision chain without the branch of the globally forbidden rule
Decide_noforbid(record) ==
    IF ~has_msg_send_rules(record.alertitem_code) THEN "no_channel"
    ELSE IF get_msg_send_rules(record.alertitem_code).msgChannels = <<>>
         THEN "no_channel"
    ELSE IF /\ record.event_type = EVENT_TYPE_RECOVER
            /\ get_msg_send_rules(record.alertitem_code).recover_msg_notsend
                   = FORBID_YES_INT
         THEN "recover_forbid"
    ELSE "dispatch"

\* a decision chain that looks at recover suppression before the globally
\* forbidden rule
Decide_recover_first(record) ==
    IF ~has_msg_send_rules(record.alertitem_code) THEN "no_channel"
    ELSE IF get_msg_send_rules(record.alertitem_code).msgChannels = <<>>
         THEN "no_channel"
    ELSE IF /\ record.event_type = EVENT_TYPE_RECOVER
            /\ get_msg_send_rules(record.alertitem_code).recover_msg_notsend
                   = FORBID_YES_INT
         THEN "recover_forbid"
    ELSE IF get_msg_send_rules(record.alertitem_code).is_forbid = FORBID_YES
         THEN "rule_forbid"
    ELSE "dispatch"

\* the decision chain at the head of _push_alert_msg_native
Decide(record) ==
    IF ~has_msg_send_rules(record.alertitem_code) THEN "no_channel"
    ELSE IF get_msg_send_rules(record.alertitem_code).msgChannels = <<>>
         THEN "no_channel"
    ELSE IF get_msg_send_rules(record.alertitem_code).is_forbid = FORBID_YES
         THEN "rule_forbid"
    ELSE IF /\ record.event_type = EVENT_TYPE_RECOVER
            /\ get_msg_send_rules(record.alertitem_code).recover_msg_notsend
                   = FORBID_YES_INT
         THEN "recover_forbid"
    ELSE "dispatch"

\* the local variable comment of _push_alert_msg_native after the decision chain
DecidedComment(decision) ==
    CASE decision = "no_channel" -> "NOT_SEND"
      [] decision = "rule_forbid" -> "NOT_SEND_RULE_FORBID"
      [] decision = "recover_forbid" -> "NOT_SEND_RECOVER_FORBID"
      [] decision = "dispatch" -> "NOT_SEND"

\* the local variable record_state of _push_alert_msg_native after the chain
DecidedState(decision) ==
    CASE decision = "no_channel" -> "2"
      [] decision = "rule_forbid" -> "1"
      [] decision = "recover_forbid" -> "10"
      [] decision = "dispatch" -> "0"

\* _push_alert_msg_native, lines 127-133: the record as it goes to persistence
Finalize(record, decision) ==
    LET notshow ==
            IF record.forbidRuleType = MSG_SEND_FORBID_NOT_SHOWANDSEND
            THEN int(ALERTITEM_NOTSHOW_YES)
            ELSE IF has_msg_send_rules(record.alertitem_code)
            THEN (IF get_msg_send_rules(record.alertitem_code).alertitem_notshow # 0
                  THEN get_msg_send_rules(record.alertitem_code).alertitem_notshow
                  ELSE int(ALERTITEM_NOTSHOW_NO))
            ELSE record.alertitem_notshow
    IN  [record EXCEPT !.alertitem_notshow = notshow,
                       !.comment = DecidedComment(decision),
                       !.record_statu = DecidedState(decision)]

\* handlers that catch MsgSendException only
Envelope_msg_only(exc) ==
    IF exc = "None" THEN "success"
    ELSE IF exc = "MsgSendException" THEN "error"
    ELSE "raised"

\* the except clauses of push_msg, push_alert_msg_zbx and
\* _push_alert_msg_native: the envelope's status for an exception raised in
\* the try body ("raised": the exception leaves the function)
Envelope(exc) ==
    IF exc = "None" THEN "success"
    ELSE IF exc = "MsgSendException" THEN "error"
    ELSE IF exc = "Exception" THEN "error"
    ELSE "raised"

(***************************************************************************)
(* Repository (repositories/memory.py): records by alertitem_record_id.    *)
(***************************************************************************)
\* InMemoryAlertManagerRepository.save_record
save_record(repo, record) ==
    [rid \in DOMAIN repo \cup {record.alertitem_record_id} |->
        IF rid = record.alertitem_record_id THEN record ELSE repo[rid]]

\* InMemoryAlertManagerRepository.mark_recovered: the affected-row count
mark_recovered_effect(repo, record) ==
    IF record.alertitem_record_id \in DOMAIN repo THEN 1 ELSE 0

\* a mark_recovered that stores the record when the repository has none
mark_recovered_upsert(repo, record) ==
    [rid \in DOMAIN repo \cup {record.alertitem_record_id} |->
        IF rid = record.alertitem_record_id
        THEN [record EXCEPT !.is_recover = IS_RECOVER_YES,
                            !.event_type = EVENT_TYPE_RECOVER]
        ELSE repo[rid]]

\* InMemoryAlertManagerRepository.mark_recovered: the repository it leaves
mark_recovered(repo, record) ==
    IF record.alertitem_record_id \notin DOMAIN repo THEN repo
    ELSE [repo EXCEPT ![record.alertitem_record_id] =
             [@ EXCEPT !.is_recover = IS_RECOVER_YES,
                       !.recover_time = record.recover_time,
                       !.event_type = EVENT_TYPE_RECOVER]]

\* query_repeat_candidates, lines 37-42: the open records
OpenRecords(repo) ==
    {rid \in DOMAIN repo : /\ repo[rid].event_type = EVENT_TYPE_CREATE
                           /\ repo[rid].is_recover = IS_RECOVER_NO}

\* query_repeat_candidates, line 45: the key records are grouped by
GroupKey(record) == <<record.hostip, record.alertitem_code, record.project>>

\* the open records grouped with record rid
GroupOf(repo, rid) ==
    {o \in OpenRecords(repo) : GroupKey(repo[o]) = GroupKey(repo[rid])}

\* query_repeat_candidates, lines 52-60: the row of a record
RepeatRow(record) ==
    [hostip |-> record.hostip, alertitem_code |-> record.alertitem_code,
     addtime |-> record.add_time, project |-> record.project]

\* InMemoryAlertManagerRepository.query_repeat_candidates: the rows of every
\* record but the last of its group sorted by add_time.  Which of several
\* records with the greatest add_time comes last is the order of the dict;
\* their rows are equal, so the rows returned do not depend on it
query_repeat_candidates(repo) ==
    {RepeatRow(repo[rid]) :
        rid \in {r \in OpenRecords(repo) :
                    \E o \in GroupOf(repo, r) \ {r} :
                        repo[o].add_time >= repo[r].add_time}}

\* InMemoryAlertManagerRepository.confirm_repeat
confirm_repeat(repo, hostip, alert_code, add_time, project) ==
    [rid \in DOMAIN repo |->
        IF /\ repo[rid].hostip = hostip
           /\ repo[rid].alertitem_code = alert_code
           /\ repo[rid].project = project
           /\ repo[rid].add_time = add_time
        THEN [repo[rid] EXCEPT !.is_confirm = CONFIRM_YES]
        ELSE repo[rid]]

\* _repeat_loop, lines 438-444: confirm_repeat for each row
RECURSIVE ConfirmRows(_, _)
ConfirmRows(repo, reps) ==
    IF reps = {} THEN repo
    ELSE LET row == CHOOSE r \in reps : TRUE
         IN  ConfirmRows(confirm_repeat(repo, row.hostip, row.alertitem_code,
                                        row.addtime, row.project),
                         reps \ {row})

(***************************************************************************)
(* The pushes the model receives.  A request is one call of                *)
(* push_alert_msg_zbx (kind "zbx") or push_msg (kind "json").              *)
(***************************************************************************)
Request(kind, payload, source_type, send_msg) ==
    [kind |-> kind, payload |-> payload, source_type |-> source_type,
     send_msg |-> send_msg]

\* a well-formed Zabbix line
Zbx(event_id, hostip, recover_time, event_type, group, alert_msg) ==
    ZbxLine(9, event_id, <<"h", "1">>, hostip, 1, recover_time, event_type,
            group, alert_msg, FALSE, "no")

\* a Zabbix push that sends
ZbxPush(line) == Request("zbx", line, "0", TRUE)

\* a JSON object payload pushed as a business alert
JsonPush(has_code, code, project, hostip) ==
    Request("json",
            JsonMsg("dict", has_code, code, "absent", project, <<"h", "1">>, hostip),
            "8", TRUE)

\* the scenario of the DedupCache: pushes handled one after the other, over
\* more keys than the cache holds (alert code N has no rule: nothing is sent)
CacheRequests ==
    { ZbxPush(Zbx(1, "10.0.0.1", 0, "1", <<"[", "P", "]">>, <<"[", "N", "]">>)),
      ZbxPush(Zbx(1, "10.0.0.1", 1, "0", <<"[", "P", "]">>, <<"[", "N", "]">>)),
      ZbxPush(Zbx(2, "10.0.0.1", 0, "1", <<"[", "P", "]">>, <<"[", "n", "]", "x">>)),
      ZbxPush(Zbx(1, "10.0.0.1", 0, "1", <<"[", "q", "]", "x">>, <<"[", "N", "]">>)),
      ZbxPush(Zbx(2, "10.0.0.1", 0, "1", <<"[", "Q", "]">>, <<"[", "N", "]">>)) }

\* the scenario of concurrent pushes that carry the same key
RaceRequests ==
    { ZbxPush(Zbx(1, "10.0.0.1", 0, "1", <<"[", "P", "]">>, <<"[", "R", "]">>)),
      ZbxPush(Zbx(1, "10.0.0.1", 1, "0", <<"[", "P", "]">>, <<"[", "R", "]">>)),
      JsonPush(TRUE, <<"R">>, <<"P">>, "10.0.0.1") }

\* the scenario of one push through every branch of the dispatcher
DispatchRequests ==
    { ZbxPush(Zbx(1, ip, IF et = "0" THEN 1 ELSE 0, et, <<"[", "P", "]">>,
                  <<"[", c, "]">>)) :
          ip \in {"10.0.0.1", "10.0.0.2"}, et \in {"0", "1"},
          c \in {"M", "A", "L", "F", "R", "E", "N", "U"} }
    \cup
    { \* a recover time that disagrees with the event type
      ZbxPush(Zbx(1, "10.0.0.1", IF et = "0" THEN 0 ELSE 1, et, <<"[", "P", "]">>,
                  <<"[", c, "]">>)) :
          et \in {"0", "1"}, c \in {"R", "N"} }
    \cup
    { ZbxPush(Zbx(2, "10.0.0.1", 0, "1", <<"[", "Q", "]", "x">>, <<"[", c, "]">>)) :
          c \in {"M", "A"} }
    \cup
    { ZbxPush(Zbx(2, "10.0.0.2", 0, "1", <<"[", "Q", "]">>, <<"[", "M", "]">>)) }
    \cup
    { Request("zbx", Zbx(1, "10.0.0.1", 0, "1", <<"[", "P", "]">>, <<"[", c, "]">>),
              "0", FALSE) : c \in {"M", "F"} }
    \cup
    { \* message fields with text and further brackets after the code
      ZbxPush(Zbx(1, "10.0.0.1", 0, "1", <<"[", "P", "]">>, alert_msg)) :
          alert_msg \in { <<"[", "m", "]", "x", "]">>,
                          <<"[", "[", "M", "]">> } }
    \cup
    { \* malformed Zabbix lines
      ZbxPush([Zbx(1, "10.0.0.1", 0, "1", <<"[", "P", "]">>, <<"[", "M", "]">>)
                  EXCEPT !.empty = TRUE]),
      ZbxPush([Zbx(1, "10.0.0.1", 0, "1", <<"[", "P", "]">>, <<"[", "M", "]">>)
                  EXCEPT !.nparts = 8]),
      ZbxPush(Zbx(1, "10.0.0.1", 0, "1", <<"P">>, <<"[", "M", "]">>)),
      ZbxPush(Zbx(1, "10.0.0.1", 0, "1", <<"[", "P", "]">>, <<"M", "]">>)),
      ZbxPush(Zbx(1, "10.0.0.1", BadTime, "1", <<"[", "P", "]">>, <<"[", "M", "]">>)),
      ZbxPush([Zbx(1, "10.0.0.1", 0, "1", <<"[", "P", "]">>, <<"[", "M", "]">>)
                  EXCEPT !.note = TRUE, !.disabled_in = "other"]),
      ZbxPush([Zbx(1, "10.0.0.1", 0, "1", <<"[", "P", "]">>, <<"[", "R", "]">>)
                  EXCEPT !.note = TRUE, !.disabled_in = "first"]) }
    \cup
    { \* {"alertcode": "R", "hostname": "h1", "msg": {"message": "disk full"}}
      Request("json",
              [JsonMsg("dict", TRUE, <<"R">>, "absent", <<"P">>, <<"h", "1">>,
                       "10.0.0.1")
                  EXCEPT !.has_msg = TRUE, !.message = <<"disk", " ", "full">>],
              "8", TRUE),
      JsonPush(TRUE, <<"m">>, <<"p">>, "10.0.0.2"),
      JsonPush(FALSE, <<>>, <<"P">>, "10.0.0.1"),
      JsonPush(TRUE, <<"U">>, <<"P">>, "10.0.0.1"),
      JsonPush(TRUE, <<"F">>, <<"P">>, "10.0.0.1"),
      Request("json", JsonMsg("empty", FALSE, <<>>, "absent", <<>>, <<>>, "None"),
              "8", TRUE),
      Request("json", JsonMsg("notjson", FALSE, <<>>, "absent", <<>>, <<>>, "None"),
              "8", TRUE),
      Request("json", JsonMsg("nondict", FALSE, <<>>, "absent", <<>>, <<>>, "None"),
              "8", TRUE),
      Request("json", JsonMsg("dict", TRUE, <<"M">>, "", <<"P">>, <<"h">>, "10.0.0.1"),
              "8", TRUE),
      Request("json", JsonMsg("dict", TRUE, <<"M">>, "77", <<"P">>, <<"h">>, "10.0.0.1"),
              "8", TRUE),
      Request("json", JsonMsg("dict", TRUE, <<"M">>, "absent", <<"P">>, <<"h">>, "10.0.0.1"),
              "0", TRUE) }

\* the scenario of alerts raised again while the repeat loop runs
RepeatRequests ==
    { ZbxPush(Zbx(e, "10.0.0.1", 0, "1", <<"[", "P", "]">>, <<"[", "N", "]">>)) :
          e \in {1, 2, 3} }
    \cup
    { ZbxPush(Zbx(1, "10.0.0.1", 0, "1", <<"[", "Q", "]">>, <<"[", "N", "]">>)),
      \* a line of eight fields
      ZbxPush([Zbx(1, "10.0.0.1", 0, "1", <<"[", "P", "]">>, <<"[", "N", "]">>)
                  EXCEPT !.nparts = 8]) }

\* the pushes of the resend scenario: two events of one host, code and project
ResendRequests ==
    { ZbxPush(Zbx(e, "10.0.0.1", 0, "1", <<"[", "P", "]">>, <<"[", "N", "]">>)) :
          e \in {1, 2} }

\* the scenarios
Profiles ==
    {"cache", "race", "dispatch", "provider", "repeat", "logging", "resend",
     "stop", "wechat", "sync", "jboss", "invoker",
     "email"}

\* the requests of a scenario
Requests(p) ==
    CASE p = "cache" -> CacheRequests
      [] p = "race" -> RaceRequests
      [] p = "dispatch" -> DispatchRequests
      [] p = "provider" -> {}
      [] p = "repeat" -> RepeatRequests
      [] p = "resend" -> ResendRequests
      [] OTHER -> {}

\* the number of pushes of a scenario; the resend scenario has as many as
\* it has events
PushLimit(p) ==
    CASE p = "cache" -> MaxPushes
      [] p = "race" -> MaxRacePushes
      [] p = "dispatch" -> MaxDispatchPushes
      [] p = "provider" -> 0
      [] p = "repeat" -> MaxRepeatPushes
      [] p = "resend" -> Cardinality(ResendRequests)
      [] OTHER -> 0

\* the number of pushes a scenario handles at the same time
InFlightLimit(p) == IF p = "race" THEN MaxInFlight ELSE 1

\* the event_id#project keys the requests can produce
AllKeys ==
    { cache_key(e, p) : e \in {1, 2, 3} \cup {generate_event_id(t) : t \in 1..MaxClock},
                        p \in {<<"P">>, <<"Q">>} }

(***************************************************************************)
(* The resend scheduler (service/core.py, _resend_loop).  The service      *)
(* itself never writes cache.resend_snapshot; the snapshots the loop works *)
(* on are its input, placed in the map by whoever holds the cache.         *)
(***************************************************************************)
\* domain/resend_snapshot.py; key is the key the snapshot is filed under,
\* record_id the alertitem_record_id of its record
ReSendInfoSnapshot(key, record_id, rules, msg_channel, sendCount) ==
    [key |-> key, record_id |-> record_id, msgSendRules |-> rules,
     msgChannel |-> msg_channel, sendCount |-> sendCount, lastSendTime |-> 0]

\* the snapshots a behaviour may be given: one under rule R (interval 1, at
\* most 2 re-sends), one with no interval and one re-send, one that has
\* reached its maximum when it arrives
SnapshotInputs ==
    { ReSendInfoSnapshot(1, 1, get_msg_send_rules(<<"R">>), cMail, 0),
      ReSendInfoSnapshot(2, 2,
          [get_msg_send_rules(<<"R">>) EXCEPT !.repeat_send_interval = 0,
                                              !.repeat_send_interval_maxtime = 1],
          cWx, 0),
      ReSendInfoSnapshot(2, 2,
          [get_msg_send_rules(<<"R">>) EXCEPT !.repeat_send_interval = 0,
                                              !.repeat_send_interval_maxtime = 0],
          cWx, 1) }

\* the keys of the map, in insertion order
SnapshotKeys(rs) == [n \in 1..Len(rs) |-> rs[n].key]

\* the position of a key in the map
SnapAt(rs, key) == CHOOSE n \in 1..Len(rs) : rs[n].key = key

\* InMemoryAlertManagerRepository.get_record
get_record(repo, record_id) ==
    IF record_id \in DOMAIN repo THEN repo[record_id] ELSE NoRecord

\* what the for loop of a tick leaves when it reaches an await or its end
Scanned(rs, items, to_remove, sending) ==
    [resend_snapshot |-> rs, items |-> items, to_remove |-> to_remove,
     sending |-> sending]

\* _resend_loop, lines 407-428: the for loop over the copied items from the
\* first of items on, up to the await of a send (sending: its key) or to the
\* end of the list (sending: 0), with one reading of the clock
RECURSIVE _resend_scan(_, _, _, _, _)
_resend_scan(rs, repo, items, to_remove, now_ts) ==
    IF items = <<>> THEN Scanned(rs, <<>>, to_remove, 0)
    ELSE LET key == Head(items)
             n == SnapAt(rs, key)
             snapshot == rs[n]
             now_ms == now_ts * 1000
             interval_ms == snapshot.msgSendRules.repeat_send_interval * 1000
             stored == get_record(repo, snapshot.record_id)
         IN  IF snapshot.sendCount
                  >= snapshot.msgSendRules.repeat_send_interval_maxtime
             THEN _resend_scan(rs, repo, Tail(items), to_remove \cup {key}, now_ts)
             ELSE IF now_ms - snapshot.lastSendTime < interval_ms
             THEN _resend_scan(rs, repo, Tail(items), to_remove, now_ts)
             ELSE IF stored # NoRecord /\ stored.is_confirm # CONFIRM_YES
             THEN Scanned([rs EXCEPT ![n].sendCount = @ + 1,
                                     ![n].lastSendTime = now_ms],
                          Tail(items), to_remove, key)
             ELSE _resend_scan(rs, repo, Tail(items), to_remove \cup {key}, now_ts)

(***************************************************************************)
(* Providers (provider/base.py): the rules every BaseProvider applies      *)
(* before it sends.  None (send_rate, same_alert_resend_mintime) is 0.     *)
(***************************************************************************)
\* domain/msg_send_event.py: what _apply_common_rules reads of an event
MsgSendEventBean(channel_id, send_rate, code, event_type, resend_mintime) ==
    [msgChannel |-> [channel_id |-> channel_id, send_rate |-> send_rate],
     alertitemRecord |-> [hostname |-> <<"h", "1">>, hostip |-> "10.0.0.1",
                          alertitem_code |-> code, event_type |-> event_type],
     msgSendRules |-> [same_alert_resend_mintime |-> resend_mintime]]

\* the events of the provider scenario
SendEvents ==
    { MsgSendEventBean("c-1", 1, <<"M">>, EVENT_TYPE_CREATE, 0),
      MsgSendEventBean("c-2", 2, <<"M">>, EVENT_TYPE_CREATE, 1),
      MsgSendEventBean("c-2", 2, <<"M">>, EVENT_TYPE_RECOVER, 1),
      MsgSendEventBean("c-0", 0, <<"M">>, EVENT_TYPE_CREATE, 2),
      MsgSendEventBean("c-0", 0, <<"A">>, EVENT_TYPE_CREATE, 2) }

\* the channel ids of the events
SendChannelIds == {ev.msgChannel.channel_id : ev \in SendEvents}

\* _dedup's key: f"{hostname}@{hostip}@{alertitem_code}@{channel_id}"
SendKey(record, msg_channel) ==
    <<record.hostname, record.hostip, record.alertitem_code, msg_channel.channel_id>>

\* the resend keys of the events
SendKeys == {SendKey(ev.alertitemRecord, ev.msgChannel) : ev \in SendEvents}

\* what a rule of the provider leaves: its state and the exception it raised
Ruled(state, exc) == [state |-> state, exc |-> exc]

\* while window and window[0].timestamp < cutoff: window.popleft()
RECURSIVE PopOld(_, _)
PopOld(window, now_ts) ==
    IF window # <<>> /\ Head(window) + SendWindow < now_ts
    THEN PopOld(Tail(window), now_ts)
    ELSE window

\* a throttle that never forgets an admitted send
_throttle_noexpire(per_minute, key, max_per_minute, now_ts) ==
    IF max_per_minute <= 0 THEN Ruled(per_minute, "None")
    ELSE IF Len(per_minute[key]) >= max_per_minute
         THEN Ruled(per_minute, "exceeded")
         ELSE Ruled([per_minute EXCEPT ![key] = Append(@, now_ts)], "None")

\* BaseProvider._throttle; "exceeded" is the MsgSendException it raises
_throttle(per_minute, key, max_per_minute, now_ts) ==
    LET window == PopOld(per_minute[key], now_ts)
    IN  IF max_per_minute <= 0 THEN Ruled(per_minute, "None")
        ELSE IF Len(window) >= max_per_minute
             THEN Ruled([per_minute EXCEPT ![key] = window], "exceeded")
             ELSE Ruled([per_minute EXCEPT ![key] = Append(window, now_ts)],
                        "None")

\* a _dedup whose rejected attempt restarts the timer
_dedup_restart(last_send, record, msg_channel, rules, now_ts) ==
    LET resend_window == rules.same_alert_resend_mintime
        key == SendKey(record, msg_channel)
    IN  IF record.event_type # EVENT_TYPE_CREATE \/ resend_window <= 0
        THEN Ruled(last_send, "None")
        ELSE IF last_send[key] # 0 /\ now_ts - last_send[key] <= resend_window
             THEN Ruled([last_send EXCEPT ![key] = now_ts], "resend")
             ELSE Ruled([last_send EXCEPT ![key] = now_ts], "None")

\* BaseProvider._dedup; "resend" is the MsgSendException it raises
_dedup(last_send, record, msg_channel, rules, now_ts) ==
    LET resend_window == rules.same_alert_resend_mintime
        key == SendKey(record, msg_channel)
    IN  IF record.event_type # EVENT_TYPE_CREATE \/ resend_window <= 0
        THEN Ruled(last_send, "None")
        ELSE IF last_send[key] # 0 /\ now_ts - last_send[key] <= resend_window
             THEN Ruled(last_send, "resend")
             ELSE Ruled([last_send EXCEPT ![key] = now_ts], "None")

\* common rules that ask the resend timer before the throttle
_apply_common_rules_timer_first(per_minute, last_send, event, now_ts) ==
    LET deduped == _dedup(last_send, event.alertitemRecord, event.msgChannel,
                          event.msgSendRules, now_ts)
        throttled == _throttle(per_minute, event.msgChannel.channel_id,
                               event.msgChannel.send_rate, now_ts)
    IN  IF deduped.exc # "None"
        THEN [_per_minute |-> per_minute, _last_send |-> last_send,
              exc |-> deduped.exc]
        ELSE [_per_minute |-> throttled.state,
              _last_send |-> IF throttled.exc = "None" THEN deduped.state
                             ELSE last_send,
              exc |-> throttled.exc]

\* BaseProvider._apply_common_rules: the throttle, then the resend timer
_apply_common_rules(per_minute, last_send, event, now_ts) ==
    LET throttled == _throttle(per_minute, event.msgChannel.channel_id,
                               event.msgChannel.send_rate, now_ts)
        deduped == _dedup(last_send, event.alertitemRecord, event.msgChannel,
                          event.msgSendRules, now_ts)
    IN  IF throttled.exc # "None"
        THEN [_per_minute |-> throttled.state, _last_send |-> last_send,
              exc |-> throttled.exc]
        ELSE [_per_minute |-> throttled.state, _last_send |-> deduped.state,
              exc |-> deduped.exc]

\* the events of the mail scenario: a channel with two sends a minute, under
\* a rule with a minimum resend interval
EmailEvents ==
    { MsgSendEventBean("c-2", 2, <<"M">>, EVENT_TYPE_CREATE, 1),
      MsgSendEventBean("c-2", 2, <<"M">>, EVENT_TYPE_RECOVER, 1) }

\* what EmailProvider.send does after the common rules let it through: the
\* channel lacks its provider, SMTP settings or recipients ("config",
\* lines 28-41), the SMTP exchange raises ("failed", lines 60-62), or the
\* message is sent ("ok")
EmailOutcomes == {"config", "failed", "ok"}

(***************************************************************************)
(* The WeChat provider (provider/wechat.py).  One corporate account, hence *)
(* one key of the token cache.  A step of a send runs from one await to    *)
(* the next; a request in flight is a send waiting for its reply.          *)
(***************************************************************************)
\* the coroutines that call WeChatProvider.send, once each
WxTasks == {1, 2}

\* the event they send: a recover notification on a channel without a rate
WxEvent == MsgSendEventBean("c-0", 0, <<"M">>, EVENT_TYPE_RECOVER, 2)

\* no entry in _token_cache
NoToken == [token |-> 0, expire_at |-> 0]

\* _TokenEntry
_TokenEntry(token, expire_at) == [token |-> token, expire_at |-> expire_at]

\* the errcode values of a reply that mean the token has expired (line 65)
TokenExpired == {40014, 42001}

\* the replies to message/send: JSON with or without an errcode
PostReplies ==
    {[has_errcode |-> FALSE, errcode |-> 0]}
    \cup {[has_errcode |-> TRUE, errcode |-> c] : c \in {0, 40001} \cup TokenExpired}

\* the replies to gettoken: JSON with or without an errcode, with the
\* lifetime of the token
GetReplies ==
    {[has_errcode |-> FALSE, errcode |-> 0, expires_in |-> TokenMargin + 1],
     [has_errcode |-> TRUE, errcode |-> 40013, expires_in |-> TokenMargin + 1]}
    \cup {[has_errcode |-> TRUE, errcode |-> 0, expires_in |-> e] :
             e \in {TokenMargin, TokenMargin + 1}}

\* a coroutine outside send.  force: the _get_token call under way is forced;
\* trace: the requests issued, in order, a post with its token; codes: the
\* errcodes of the replies to its posts; cached: the token the cache held
\* valid when send was called (0: none)
WxIdle ==
    [pc |-> "idle", force |-> FALSE, trace |-> <<>>, codes |-> <<>>,
     cached |-> 0, result |-> "None"]

\* entry.expire_at > time.time(), for an entry that exists
TokenValid(entry, now_ts) == entry # NoToken /\ entry.expire_at > now_ts

\* a coroutine and the lock after a step
WxStep(task, lock) == [task |-> task, _lock |-> lock]

\* send, lines 60-61: the message is posted with a token
IssuePost(task, token) ==
    [task EXCEPT !.pc = "post",
                 !.trace = Append(@, [op |-> "post", force |-> FALSE,
                                      token |-> token])]

\* _get_token, lines 88-89: the token is requested
IssueGet(task, force) ==
    [task EXCEPT !.pc = "get", !.force = force,
                 !.trace = Append(@, [op |-> "get", force |-> force, token |-> 0])]

\* _get_token, lines 84-89, entered by coroutine t with the lock: the entry is
\* looked at again; a valid one is returned, the lock released and the message
\* posted, otherwise the token is requested with the lock held
_get_token_locked(t, task, force, entry, now_ts) ==
    IF TokenValid(entry, now_ts) /\ ~force
    THEN WxStep(IssuePost(task, entry.token), 0)
    ELSE WxStep(IssueGet(task, force), t)

\* _get_token, lines 77-83, called by coroutine t, up to its first await
_get_token(t, task, force, entry, lock, now_ts) ==
    IF ~force /\ TokenValid(entry, now_ts)
    THEN WxStep(IssuePost(task, entry.token), lock)
    ELSE IF lock = 0
    THEN _get_token_locked(t, task, force, entry, now_ts)
    ELSE WxStep([task EXCEPT !.pc = "wait", !.force = force], lock)

\* a send that refreshes and posts again after every token-expired reply
AfterPost_every_time(nposts, code) ==
    IF code \in TokenExpired THEN "refresh"
    ELSE IF code # 0 THEN "MsgSendException"
    ELSE "ok"

\* send, lines 63-74: what follows the reply with errcode code to the
\* nposts-th post
AfterPost(nposts, code) ==
    IF nposts = 1 /\ code \in TokenExpired THEN "refresh"
    ELSE IF code # 0 THEN "MsgSendException"
    ELSE "ok"

(***************************************************************************)
(* SlaveSync (service/core.py, sync_data_to_slave and _sync_loop).  The    *)
(* offer of a message to a target is the log line the loop writes for it,  *)
(* followed by an await of asyncio.sleep(0).                               *)
(***************************************************************************)
\* settings.alertmanager_slave_targets
alertmanager_slave_targets == <<"slave-1", "slave-2">>

\* domain SyncMsgBean; n is history: the ordinal of the call of
\* sync_data_to_slave that made the message (two calls may carry equal texts)
SyncMsgBean(msg, projectIdentify, msgType, n) ==
    [msg |-> msg, projectIdentify |-> projectIdentify, msgType |-> msgType, n |-> n]

\* no message
NoSyncMsg == SyncMsgBean("", "", 0, 0)

\* the arguments sync_data_to_slave is called with
SyncInputs == { <<"a", "P", 1>>, <<"b", "Q", 2>> }

\* _sync_loop before its first round.  sync_msg and target are the locals of
\* the round under way (target: the position of the target offered last);
\* dequeued and offered are history: the messages popped and the
\* <<message ordinal, target>> offers, in order; nenq counts the calls of
\* sync_data_to_slave
SyncIdle ==
    [pc |-> "poll", sync_msg |-> NoSyncMsg, target |-> 0, dequeued |-> <<>>,
     offered |-> <<>>, nenq |-> 0]

\* a drain that takes the newest message
popleft_newest(queue) ==
    [item |-> queue[Len(queue)], queue |-> SubSeq(queue, 1, Len(queue) - 1)]

\* deque.popleft
popleft(queue) == [item |-> Head(queue), queue |-> Tail(queue)]

(***************************************************************************)
(* JbossCliExecutor.deploy (deployfilemanage/deploy/jboss_cli.py).  The    *)
(* call is followed from one run of the CLI (subprocess.run in _run_cli)   *)
(* to the next; what the file system and the CLI answer is the input.      *)
(***************************************************************************)
\* the rounds of _poll_deployment_status (range(10), line 322)
PollTries == 10

\* what a run of the CLI can end with: the output is accepted, the output is
\* not conclusive, or the run raises (non-zero exit, timeout, the process
\* cannot be started)
CliOutcomes == {"ok", "unclear", "CalledProcessError", "RuntimeError", "OSError"}

\* what DeploymentBackupManager.create_backup can do: return None (no backup
\* root or no deployed file), copy the file, or fail to copy it
BackupOutcomes == {"none", "made", "raises"}

\* no call of deploy.  commands is history: the runs of the CLI, in order,
\* each with the script it ran, the stage that issued it and how it ended
\* ("running" until it ends); found: _resolve_cli_bin finds the CLI; polls: the
\* rounds of the status query made; result: DeployResultRecord.success, or
\* "raised" when the call was left by an exception
CliIdle ==
    [pc |-> "idle", is_undeploy |-> FALSE, found |-> FALSE, backup |-> "none",
     commands |-> <<>>, polls |-> 0, restored |-> FALSE, result |-> "None"]

\* _run_cli is entered for a script
Issue(c, script, stage, pc) ==
    [c EXCEPT !.pc = pc,
              !.commands = Append(@, [script |-> script, stage |-> stage,
                                      outcome |-> "running"])]

\* the run under way has ended
Ended(c, outcome) ==
    [c EXCEPT !.commands = [@ EXCEPT ![Len(@)].outcome = outcome]]

\* deploy, lines 136-158: the failure is recorded and a backup restored
Failed(c) ==
    [c EXCEPT !.pc = "done", !.result = "failure", !.restored = (c.backup = "made")]

\* deploy, lines 98-134, up to the run of the CLI: the backup, then the
\* command of _build_cli_command, whose script is "undeploy" for an undeploy
\* request and "deploy --force" otherwise
MainStage(c, backup) ==
    LET b == [c EXCEPT !.backup = backup]
    IN  IF backup = "raises" \/ ~c.found THEN Failed(b)
        ELSE Issue(b, IF c.is_undeploy THEN "undeploy" ELSE "deploy", "main", "run")

\* a pre-clean whose handler knows the non-zero exit only
PrecleanCaught_exit_only(outcome) ==
    outcome \in {"ok", "unclear", "CalledProcessError"}

\* _preclean_existing_deployment, lines 387-390: what the run of the undeploy
\* script ended with is caught (except CalledProcessError, except Exception)
PrecleanCaught(outcome) ==
    outcome \in {"ok", "unclear"} \cup {"CalledProcessError", "RuntimeError", "OSError"}

\* _poll_deployment_status, lines 322-348, from the end of a run: the state
\* is OK, an exception, or another round after the sleep, up to PollTries
AfterPoll(c, outcome) ==
    IF outcome = "ok" THEN [c EXCEPT !.pc = "done", !.result = "success"]
    ELSE IF outcome # "unclear" THEN Failed(c)
    ELSE IF c.polls < PollTries
    THEN Issue([c EXCEPT !.polls = @ + 1], "deployment-info", "poll", "poll")
    ELSE Failed(c)

(***************************************************************************)
(* DeployInvokerService, for one server key.  The queue of the server is   *)
(* a sequence of tasks; thread_pool lists the DeployThreads created for    *)
(* the server in order, the last being the one the dictionary holds.  A    *)
(* thread is at the loop test of run ("check"), in queue.get ("get"), in   *)
(* the executor ("run") or has returned from run ("dead").  One thread     *)
(* calls submit and kill_server_tasks; both are several statements long,   *)
(* and the worker runs between them.                                       *)
(***************************************************************************)
\* DeployTask: the n-th task submitted for the server
DeployTask(n) == [dep_event_id |-> "e", task_id |-> n, server_key |-> "s"]

\* DeployThread.__init__ followed by start()
DeployThread == [pc |-> "check", _stop_event |-> FALSE, task |-> 0]

\* Thread.is_alive
is_alive(thread) == thread.pc # "dead"

\* the caller between two calls; nsubmit and nkill count its calls, removed
\* is the history of the tasks kill_server_tasks cleared from the queue
CallerIdle ==
    [pc |-> "idle", task |-> 0, nsubmit |-> 0, nkill |-> 0, removed |-> {}]

(***************************************************************************)
(* State.                                                                  *)
(***************************************************************************)
VARIABLES
    profile,       \* the scenario the behaviour draws its requests from
    clock,         \* the wall clock (util.now) when the latest push arrived
    nreceived,     \* pushes received so far; the next record id is nreceived + 1
    push,          \* slot -> the push being handled in it (one coroutine each)
    tmp_messages,  \* AlertInfoCache._tmp_messages
    records,       \* InMemoryAlertManagerRepository.records
    providers,     \* ProviderRegistry._providers: channel type -> provider
    recency,       \* history: the cached keys, least recently stamped first
    _per_minute,   \* BaseProvider._per_minute: channel id -> admitted timestamps
    _last_send,    \* BaseProvider._last_send: resend key -> timestamp (0: none)
    attempts,      \* history: the calls of _apply_common_rules, in order
    logged,        \* history: the sends LoggingProvider performed, in order
    resend_snapshot, \* AlertInfoCache.resend_snapshot, in insertion order
    resend_task,   \* the coroutine of _resend_loop
    resends,       \* history: the re-sends _resend_loop started, in order
    stopping,      \* the application has been asked to stop
    wx,            \* coroutine -> its call of WeChatProvider.send
    _token_cache,  \* WeChatProvider._token_cache, the entry of the one key
    _lock,         \* WeChatProvider._lock: the coroutine that holds it, 0 when free
    nsends,        \* calls of WeChatProvider.send so far
    _sync_queue,   \* AlertManagerService._sync_queue
    sync_task,     \* the coroutine of _sync_loop, with the history of its work
    cli,           \* the call of JbossCliExecutor.deploy under way
    wait_queues,   \* DeployInvokerService.wait_queues, the queue of the server
    thread_pool,   \* DeployInvokerService.thread_pool, the threads of the server
    caller,        \* the thread that calls submit and kill_server_tasks
    executed       \* history: the tasks _execute_task was called with, in order

\* the state of a provider and the history of its calls
sender == <<_per_minute, _last_send, attempts>>

\* the state of the resend scheduler
scheduler == <<resend_snapshot, resend_task, resends, stopping>>

\* the state of the WeChat provider
wechat == <<wx, _token_cache, _lock, nsends>>

\* the state of SlaveSync
slave == <<_sync_queue, sync_task>>

\* the state of the deploy module: the CLI executor and the invoker
deployer == <<cli, wait_queues, thread_pool, caller, executed>>

\* the state of the logging provider, the schedulers, the WeChat provider,
\* SlaveSync and the deploy module
rest == <<logged, scheduler, wechat, slave, deployer>>

\* _resend_loop asleep before its first tick.  items and to_remove are the
\* locals of the tick under way, sending the key of the snapshot whose send is
\* awaited, ticks the ticks started; at_max and confirmed are history: the keys
\* that the latest tick, when it started, found at their maximum, and found
\* due with a confirmed record
Asleep ==
    [pc |-> "sleep", items |-> <<>>, to_remove |-> {}, sending |-> 0, ticks |-> 0,
     at_max |-> {}, confirmed |-> {}]

vars == <<profile, clock, nreceived, push, tmp_messages, records, providers,
          recency, sender, rest>>

Slots == 1..MaxInFlight

\* a slot that handles no push.  sends is the log of the dispatch loop, one
\* entry per channel visited: "skip", "nosend", or the outcome of provider.send.
\* already is what the cache held for the key when the push persisted, calls
\* the repository calls its persistence made
Idle ==
    [pc |-> "idle", record |-> NoRecord, decision |-> "None", idx |-> 0,
     sends |-> <<>>, msgs |-> <<>>, response |-> "None", already |-> "None",
     calls |-> [save |-> 0, mark |-> 0], persisted |-> "None", effect |-> 0]

Init ==
    /\ profile \in Profiles
    /\ clock = 1
    /\ nreceived = 0
    /\ push = [s \in Slots |-> Idle]
    /\ tmp_messages = <<>>
    /\ records = <<>>
    /\ providers = DefaultProviders
    /\ recency = <<>>
    /\ _per_minute = [k \in SendChannelIds |-> <<>>]
    /\ _last_send = [k \in SendKeys |-> 0]
    /\ attempts = <<>>
    /\ logged = <<>>
    /\ resend_snapshot = <<>>
    /\ resend_task = Asleep
    /\ resends = <<>>
    /\ stopping = FALSE
    /\ wx = [t \in WxTasks |-> WxIdle]
    /\ _token_cache = NoToken
    /\ _lock = 0
    /\ nsends = 0
    /\ _sync_queue = <<>>
    /\ sync_task = SyncIdle
    /\ cli = CliIdle
    /\ wait_queues = <<>>
    /\ thread_pool = <<>>
    /\ caller = CallerIdle
    /\ executed = <<>>

\* the key of the record of a push
KeyOf(p) == cache_key(p.record.event_id, p.record.project)

\* the channels of the rule of the record of a push
ChannelsOf(p) == get_msg_send_rules(p.record.alertitem_code).msgChannels

(***************************************************************************)
(* Actions.  A push that has produced its envelope returns it in the same  *)
(* coroutine step (there is no await between persistence and return), so   *)
(* no other step is taken while a slot is in "done": that state only shows *)
(* the finished push before the slot is freed.                             *)
(***************************************************************************)
\* no finished push is waiting to hand its envelope over
NoneDone == \A s \in Slots : push[s].pc # "done"

\* the parser a request goes through in push_msg / push_alert_msg_zbx
ParseRequest(req, now_ts, rid) ==
    IF req.kind = "zbx" THEN _gen_record_from_zabbix(req.payload, now_ts, rid)
    ELSE IF req.source_type = "0" THEN Parsed("MsgSendException", NoRecord)
    ELSE _gen_record_from_json(req.payload, req.source_type, now_ts, rid)

\* a push that consults the DedupCache before the dispatch loop and does not
\* notify for a create whose key is stamped
Receive_dedup_first(s, req, now_ts) ==
    LET parsed == ParseRequest(req, now_ts, nreceived + 1)
        record == [parsed.record EXCEPT !.currentIsSendMsg = req.send_msg]
        decision == Decide(record)
        seen == /\ parsed.exc = "None"
                /\ record.event_type # EVENT_TYPE_RECOVER
                /\ check_tmp_message(tmp_messages, record.event_id,
                                     record.project) # "None"
    IN  /\ NoneDone
        /\ push[s].pc = "idle"
        /\ \A t \in Slots : t < s => push[t].pc # "idle"
        /\ nreceived < PushLimit(profile)
        /\ Cardinality({t \in Slots : push[t].pc # "idle"}) < InFlightLimit(profile)
        /\ nreceived' = nreceived + 1
        /\ clock' = now_ts
        /\ push' = [push EXCEPT ![s] =
              IF parsed.exc # "None"
              THEN [Idle EXCEPT !.pc = "done", !.response = Envelope(parsed.exc)]
              ELSE [Idle EXCEPT !.pc = IF decision = "dispatch" /\ ~seen
                                       THEN "dispatch" ELSE "persist",
                                !.record = record, !.decision = decision,
                                !.idx = 1]]
        /\ UNCHANGED <<profile, tmp_messages, records, providers, recency,
                       sender, rest>>

\* push_msg / push_alert_msg_zbx up to the first channel of _dispatch_channels:
\* parse, forbid rules, currentIsSendMsg, the decision chain.  The coroutine
\* takes the first free slot.  now_ts is the wall clock at the call (util.now),
\* which only the parsers read
Receive(s, req, now_ts) ==
    LET parsed == ParseRequest(req, now_ts, nreceived + 1)
        record == [parsed.record EXCEPT !.currentIsSendMsg = req.send_msg]
        decision == Decide(record)
    IN  /\ NoneDone
        /\ push[s].pc = "idle"
        /\ \A t \in Slots : t < s => push[t].pc # "idle"
        /\ nreceived < PushLimit(profile)
        /\ Cardinality({t \in Slots : push[t].pc # "idle"}) < InFlightLimit(profile)
        /\ nreceived' = nreceived + 1
        /\ clock' = now_ts
        /\ push' = [push EXCEPT ![s] =
              IF parsed.exc # "None"
              THEN [Idle EXCEPT !.pc = "done", !.response = Envelope(parsed.exc)]
              ELSE [Idle EXCEPT !.pc = IF decision = "dispatch" THEN "dispatch"
                                       ELSE "persist",
                                !.record = record, !.decision = decision,
                                !.idx = 1]]
        /\ UNCHANGED <<profile, tmp_messages, records, providers, recency,
                       sender, rest>>

\* a dispatch loop that a failed send leaves
NextChannel_abort(p, record, entry) ==
    [p EXCEPT !.record = record, !.sends = Append(@, entry), !.idx = @ + 1,
              !.pc = IF p.idx = Len(ChannelsOf(p))
                        \/ entry \in {"MsgSendException", "Exception"}
                     THEN "persist" ELSE "dispatch"]

\* a dispatch loop out of which a failed send propagates: the push ends with
\* the error envelope and does not persist
NextChannel_raise(p, record, entry) ==
    IF entry \in {"MsgSendException", "Exception"}
    THEN [p EXCEPT !.record = record, !.sends = Append(@, entry),
                   !.pc = "done", !.response = Envelope(entry)]
    ELSE [p EXCEPT !.record = record, !.sends = Append(@, entry), !.idx = @ + 1,
                   !.pc = IF p.idx = Len(ChannelsOf(p)) THEN "persist"
                          ELSE "dispatch"]

\* the slot after the dispatch loop has dealt with its current channel
NextChannel(p, record, entry) ==
    [p EXCEPT !.record = record, !.sends = Append(@, entry), !.idx = @ + 1,
              !.pc = IF p.idx = Len(ChannelsOf(p)) THEN "persist" ELSE "dispatch"]

\* one iteration of the loop of _dispatch_channels that does not reach a provider
SkipChannel(s) ==
    LET p == push[s]
        ch == ChannelsOf(p)[p.idx]
        checked == _is_channel_forbidden(p.record, ch)
        rendered == [checked.record EXCEPT !.currentChannelType = ch.channel_type]
    IN  /\ NoneDone
        /\ p.pc = "dispatch"
        /\ \/ /\ checked.skip
              /\ push' = [push EXCEPT ![s] = NextChannel(p, checked.record, "skip")]
           \/ /\ ~checked.skip /\ ~p.record.currentIsSendMsg
              /\ push' = [push EXCEPT ![s] = NextChannel(p, rendered, "nosend")]
        /\ UNCHANGED <<profile, clock, nreceived, tmp_messages, records,
                       providers, recency, sender, rest>>

\* one iteration of the loop of _dispatch_channels that looks its provider up:
\* an unknown channel type leaves the loop and _push_alert_msg_native returns
\* the error envelope; otherwise the provider's send returns or raises
SendChannel(s) ==
    LET p == push[s]
        ch == ChannelsOf(p)[p.idx]
        checked == _is_channel_forbidden(p.record, ch)
        rendered == [checked.record EXCEPT !.currentChannelType = ch.channel_type]
        \* the wall clock of {NOW} is the last reading taken
        message == format(checked.record,
                          TemplateOf(checked.record,
                                     get_msg_send_rules(p.record.alertitem_code), ch),
                          clock)
        channel_type == ResolveChannelType(ch)
        registry == RegistryAfterGet(providers, channel_type)
    IN  /\ NoneDone
        /\ p.pc = "dispatch"
        /\ ~checked.skip /\ p.record.currentIsSendMsg
        /\ \/ /\ channel_type = "ValueError"
              /\ push' = [push EXCEPT ![s] =
                    [p EXCEPT !.record = rendered, !.pc = "done",
                              !.response = Envelope("Exception")]]
              /\ UNCHANGED providers
           \/ /\ channel_type # "ValueError"
              /\ providers' = registry
              /\ \E outcome \in SendOutcomes(registry[channel_type]) :
                    push' = [push EXCEPT ![s] =
                        [NextChannel(p, AfterSend(rendered, outcome, channel_type),
                                     outcome)
                            EXCEPT !.msgs = Append(@, [channel_id |-> ch.channel_id,
                                                       msg |-> message])]]
        /\ UNCHANGED <<profile, clock, nreceived, tmp_messages, records, recency,
                       sender, rest>>

\* what the persistence step of _push_alert_msg_native leaves: the cache, the
\* repository, the repository calls it made (save, mark: 0 or 1), the branch
\* it took, mark_recovered's return value and the exception it raised
Persisted(od, repo, save, mark, branch, effect, exc) ==
    [tmp_messages |-> od, records |-> repo, save |-> save, mark |-> mark,
     branch |-> branch, effect |-> effect, exc |-> exc]

\* a recover branch that consults the cache first and drops the recover of a
\* key stamped by an earlier recover
persist_recover_gated(record, od, repo, repo_ok) ==
    IF check_tmp_message(od, record.event_id, record.project) = "True"
    THEN Persisted(od, repo, 0, 0, "dup_recover", 0, "None")
    ELSE IF repo_ok
    THEN Persisted(add_tmp_message(od, record.event_id, record.project, TRUE),
                   mark_recovered(repo, record), 0, 1, "marked",
                   mark_recovered_effect(repo, record), "None")
    ELSE Persisted(od, repo, 0, 1, "None", 0, "Exception")

\* _push_alert_msg_native, lines 135-142: persistence of a recover event.
\* repo_ok: the repository call returns (it raises otherwise)
persist_recover(record, od, repo, repo_ok) ==
    IF repo_ok
    THEN Persisted(add_tmp_message(od, record.event_id, record.project, TRUE),
                   mark_recovered(repo, record), 0, 1, "marked",
                   mark_recovered_effect(repo, record), "None")
    ELSE Persisted(od, repo, 0, 1, "None", 0, "Exception")

\* a create branch that saves every record it sees for the first time,
\* whatever its forbid type
persist_create_saves_hidden(record, od, repo, repo_ok) ==
    LET already == check_tmp_message(od, record.event_id, record.project)
        stamped == add_tmp_message(od, record.event_id, record.project, FALSE)
    IN  IF already = "None"
        THEN IF repo_ok
             THEN Persisted(stamped, save_record(repo, record), 1, 0,
                            IF record.forbidRuleType # MSG_SEND_FORBID_NOT_SHOWANDSEND
                            THEN "saved" ELSE "not_shown", 0, "None")
             ELSE Persisted(od, repo, 1, 0, "None", 0, "Exception")
        ELSE IF already = "True"
             THEN Persisted(od, repo, 0, 0, "dup_recover", 0, "None")
             ELSE Persisted(od, repo, 0, 0, "dup_create", 0, "None")

\* _push_alert_msg_native, lines 143-157: persistence of any other event
persist_create(record, od, repo, repo_ok) ==
    LET already == check_tmp_message(od, record.event_id, record.project)
        stamped == add_tmp_message(od, record.event_id, record.project, FALSE)
    IN  IF already = "None"
        THEN IF record.forbidRuleType # MSG_SEND_FORBID_NOT_SHOWANDSEND
             THEN IF repo_ok
                  THEN Persisted(stamped, save_record(repo, record), 1, 0,
                                 "saved", 0, "None")
                  ELSE Persisted(od, repo, 1, 0, "None", 0, "Exception")
             ELSE Persisted(stamped, repo, 0, 0, "not_shown", 0, "None")
        ELSE IF already = "True"
             THEN Persisted(od, repo, 0, 0, "dup_recover", 0, "None")
             ELSE Persisted(od, repo, 0, 0, "dup_create", 0, "None")

\* _push_alert_msg_native, lines 135-157
persist(record, od, repo, repo_ok) ==
    IF record.event_type = EVENT_TYPE_RECOVER
    THEN persist_recover(record, od, repo, repo_ok)
    ELSE persist_create(record, od, repo, repo_ok)

\* what a cache holds for a key: "None", or the flag as "True" / "False"
StampOf(od, k) ==
    IF \A i \in 1..Len(od) : od[i].key # k THEN "None"
    ELSE IF \E i \in 1..Len(od) : od[i].key = k /\ od[i].is_recover THEN "True"
    ELSE "False"

\* the keys of a cache in eviction order
KeyOrder(od) == [i \in 1..Len(od) |-> od[i].key]

\* _push_alert_msg_native from line 127 to its return: the record is completed,
\* persisted and the envelope built, in one step (the code awaits nothing here)
Persist(s, repo_ok) ==
    LET p == push[s]
        record == Finalize(p.record, p.decision)
        k == KeyOf(p)
        r == persist(record, tmp_messages, records, repo_ok)
        touched == r.branch \in {"marked", "saved", "not_shown"}
    IN  /\ NoneDone
        /\ p.pc = "persist"
        /\ tmp_messages' = r.tmp_messages
        /\ records' = r.records
        /\ recency' = IF touched
                      THEN SelectSeq(SelectSeq(recency, LAMBDA x : x # k) \o <<k>>,
                                     LAMBDA x : x \in KeysOf(r.tmp_messages))
                      ELSE recency
        /\ push' = [push EXCEPT ![s] =
              [p EXCEPT !.pc = "done", !.record = record,
                        !.already = StampOf(tmp_messages, k),
                        !.calls = [save |-> r.save, mark |-> r.mark],
                        !.persisted = r.branch, !.effect = r.effect,
                        !.response = Envelope(r.exc)]]
        /\ UNCHANGED <<profile, clock, nreceived, providers, sender, rest>>

\* a provider's send up to its first await: _apply_common_rules on an event,
\* at clock reading now_ts
ApplyCommonRules(event, now_ts) ==
    LET r == _apply_common_rules(_per_minute, _last_send, event, now_ts)
    IN  /\ profile = "provider"
        /\ Len(attempts) < MaxAttempts
        /\ clock' = now_ts
        /\ _per_minute' = r._per_minute
        /\ _last_send' = r._last_send
        /\ attempts' = Append(attempts, [event |-> event, time |-> now_ts,
                                         outcome |-> r.exc])
        /\ UNCHANGED <<profile, nreceived, push, tmp_messages, records, providers,
                       recency, rest>>

\* LoggingProvider.send on an event at clock reading now_ts, for a channel
\* whose type has no registered provider: the payload is logged, which is all
\* that sending means for this provider, and the call returns
LoggingSend(event, now_ts) ==
    /\ profile = "logging"
    /\ Len(logged) < MaxLogged
    /\ clock' = now_ts
    /\ logged' = Append(logged, [event |-> event, time |-> now_ts])
    /\ UNCHANGED <<profile, nreceived, push, tmp_messages, records, providers,
                   recency, sender, scheduler, wechat,
                   slave, deployer>>

\* a snapshot is placed in the map under a key it does not hold yet, for a
\* record that has been parsed
Track(snapshot) ==
    /\ profile = "resend"
    /\ NoneDone
    /\ snapshot.record_id \in 1..nreceived
    /\ \A n \in 1..Len(resend_snapshot) : resend_snapshot[n].key # snapshot.key
    /\ resend_snapshot' = Append(resend_snapshot, snapshot)
    /\ resend_task' = [resend_task EXCEPT !.at_max = @ \ {snapshot.key},
                                          !.confirmed = @ \ {snapshot.key}]
    /\ UNCHANGED <<profile, clock, nreceived, push, tmp_messages, records,
                   providers, recency, sender, logged, resends, stopping, wechat,
                   slave, deployer>>

\* _resend_loop from the item items starts with to the next await: the for
\* loop runs to a send, whose provider is looked up and called, or to its
\* end, after which the collected keys are popped and the loop sleeps.  An
\* exception leaves the coroutine, which nothing restarts
ResendScan(task, items, now_ts) ==
    LET r == _resend_scan(resend_snapshot, records, items, task.to_remove, now_ts)
        snapshot == r.resend_snapshot[SnapAt(r.resend_snapshot, r.sending)]
        channel_type == ResolveChannelType(snapshot.msgChannel)
        registry == RegistryAfterGet(providers, channel_type)
    IN  IF r.sending = 0
        THEN /\ resend_snapshot' = SelectSeq(r.resend_snapshot,
                                             LAMBDA x : x.key \notin r.to_remove)
             /\ resend_task' = [task EXCEPT !.pc = "sleep", !.items = <<>>,
                                            !.to_remove = {}, !.sending = 0]
             /\ UNCHANGED <<providers, resends>>
        ELSE /\ resend_snapshot' = r.resend_snapshot
             /\ IF channel_type = "ValueError"
                THEN /\ resend_task' = [task EXCEPT !.pc = "dead",
                                                    !.items = r.items,
                                                    !.to_remove = r.to_remove]
                     /\ UNCHANGED <<providers, resends>>
                ELSE /\ providers' = registry
                     /\ resend_task' = [task EXCEPT !.pc = "send",
                                                    !.items = r.items,
                                                    !.to_remove = r.to_remove,
                                                    !.sending = r.sending]
                     /\ resends' = Append(resends,
                           [time |-> now_ts, snapshot |-> snapshot,
                            record |-> get_record(records, snapshot.record_id),
                            provider |-> registry[channel_type]])

\* _resend_loop wakes from its sleep and starts a tick at clock reading now_ts
ResendTick(now_ts) ==
    LET keys == SnapshotKeys(resend_snapshot)
        at_max == {resend_snapshot[n].key : n \in
                     {m \in 1..Len(resend_snapshot) :
                        resend_snapshot[m].sendCount
                          >= resend_snapshot[m].msgSendRules.repeat_send_interval_maxtime}}
        confirmed == {resend_snapshot[n].key : n \in
                     {m \in 1..Len(resend_snapshot) :
                        /\ resend_snapshot[m].key \notin at_max
                        /\ now_ts * 1000 - resend_snapshot[m].lastSendTime
                             >= resend_snapshot[m].msgSendRules.repeat_send_interval * 1000
                        /\ resend_snapshot[m].record_id \in DOMAIN records
                        /\ records[resend_snapshot[m].record_id].is_confirm
                             = CONFIRM_YES}}
    IN  /\ profile \in {"resend", "stop"}
        /\ NoneDone
        /\ resend_task.pc = "sleep"
        /\ resend_task.ticks < MaxTicks
        /\ clock' = now_ts
        /\ ResendScan([resend_task EXCEPT !.ticks = @ + 1, !.at_max = at_max,
                                          !.confirmed = confirmed],
                      keys, now_ts)
        /\ UNCHANGED <<profile, nreceived, push, tmp_messages, records, recency,
                       sender, logged, stopping, wechat,
                       slave, deployer>>

\* the send _resend_loop awaits returns, or raises; the loop goes on with the
\* clock where the tick read it
ResendSent(outcome) ==
    LET snapshot == resend_snapshot[SnapAt(resend_snapshot, resend_task.sending)]
        provider == providers[ResolveChannelType(snapshot.msgChannel)]
    IN  /\ resend_task.pc = "send"
        /\ NoneDone
        /\ outcome \in SendOutcomes(provider)
        /\ IF outcome = "ok"
           THEN ResendScan([resend_task EXCEPT !.sending = 0],
                           resend_task.items, clock)
           ELSE /\ resend_task' = [resend_task EXCEPT !.pc = "dead"]
                /\ UNCHANGED <<resend_snapshot, providers, resends>>
        /\ UNCHANGED <<profile, clock, nreceived, push, tmp_messages, records,
                       recency, sender, logged, stopping, wechat,
                       slave, deployer>>

\* the application is asked to stop; nothing in the service hears of it
Shutdown ==
    /\ profile = "stop"
    /\ ~stopping
    /\ stopping' = TRUE
    /\ UNCHANGED <<profile, clock, nreceived, push, tmp_messages, records,
                   providers, recency, sender, logged, resend_snapshot,
                   resend_task, resends, wechat,
                   slave, deployer>>

\* WeChatProvider.send called by coroutine t, up to its first await: the
\* common rules, the configuration checks, and _get_token to the point where
\* it returns a cached token (the message is posted), waits for the lock, or
\* requests a token
WxSend(t, configured) ==
    LET r == _apply_common_rules(_per_minute, _last_send, WxEvent, clock)
        task == [WxIdle EXCEPT !.cached = IF TokenValid(_token_cache, clock)
                                          THEN _token_cache.token ELSE 0]
        step == _get_token(t, task, FALSE, _token_cache, _lock, clock)
    IN  /\ profile = "wechat"
        /\ wx[t].pc = "idle"
        /\ \A u \in WxTasks : wx[u].pc = "idle" => t <= u
        /\ nsends' = nsends + 1
        /\ _per_minute' = r._per_minute
        /\ _last_send' = r._last_send
        /\ UNCHANGED attempts
        /\ IF r.exc # "None" \/ ~configured
           THEN /\ wx' = [wx EXCEPT ![t] = [task EXCEPT !.pc = "done",
                                               !.result = "MsgSendException"]]
                /\ UNCHANGED _lock
           ELSE /\ wx' = [wx EXCEPT ![t] = step.task]
                /\ _lock' = step._lock
        /\ UNCHANGED <<profile, clock, nreceived, push, tmp_messages, records,
                       providers, recency, logged, scheduler, _token_cache,
                       slave, deployer>>

\* a coroutine that waited for the lock acquires it (line 83) and goes on
WxAcquire(t) ==
    LET step == _get_token_locked(t, wx[t], wx[t].force, _token_cache, clock)
    IN  /\ wx[t].pc = "wait"
        /\ _lock = 0
        /\ wx' = [wx EXCEPT ![t] = step.task]
        /\ _lock' = step._lock
        /\ UNCHANGED <<profile, clock, nreceived, push, tmp_messages, records,
                       providers, recency, sender, logged, scheduler,
                       _token_cache, nsends,
                       slave, deployer>>

\* the reply to gettoken arrives (lines 90-97): a failure reply raises and
\* leaves the lock; a token is cached, the lock left and the message posted
WxTokenReply(t, reply) ==
    \* the tokens are told apart by the number of sends begun when they arrive
    LET token == nsends
        entry == _TokenEntry(token, clock + reply.expires_in - TokenMargin)
    IN  /\ wx[t].pc = "get"
        /\ _lock' = 0
        /\ IF ~reply.has_errcode \/ reply.errcode # 0
           THEN /\ wx' = [wx EXCEPT ![t] = [@ EXCEPT !.pc = "done",
                                               !.result = "MsgSendException"]]
                /\ UNCHANGED _token_cache
           ELSE /\ _token_cache' = entry
                /\ wx' = [wx EXCEPT ![t] = IssuePost(@, token)]
        /\ UNCHANGED <<profile, clock, nreceived, push, tmp_messages, records,
                       providers, recency, sender, logged, scheduler, nsends,
                       slave, deployer>>

\* the reply to message/send arrives (lines 62-74)
WxPostReply(t, reply) ==
    LET code == IF reply.has_errcode THEN reply.errcode ELSE 0
        task == [wx[t] EXCEPT !.codes = Append(@, code)]
        next == AfterPost(Len(task.codes), code)
        step == _get_token(t, task, TRUE, _token_cache, _lock, clock)
    IN  /\ wx[t].pc = "post"
        /\ IF next = "refresh"
           THEN /\ wx' = [wx EXCEPT ![t] = step.task]
                /\ _lock' = step._lock
           ELSE /\ wx' = [wx EXCEPT ![t] = [task EXCEPT !.pc = "done",
                                                       !.result = next]]
                /\ UNCHANGED _lock
        /\ UNCHANGED <<profile, clock, nreceived, push, tmp_messages, records,
                       providers, recency, sender, logged, scheduler,
                       _token_cache, nsends,
                       slave, deployer>>

\* the request in flight fails in transport: httpx raises, the exception
\* leaves send, and the lock if it was held
WxTransportError(t) ==
    /\ wx[t].pc \in {"get", "post"}
    /\ wx' = [wx EXCEPT ![t] = [@ EXCEPT !.pc = "done", !.result = "Exception"]]
    /\ _lock' = IF _lock = t THEN 0 ELSE _lock
    /\ UNCHANGED <<profile, clock, nreceived, push, tmp_messages, records,
                   providers, recency, sender, logged, scheduler, _token_cache,
                   nsends,
                   slave, deployer>>

\* time.time() moves on
TimePasses ==
    /\ profile = "wechat"
    /\ clock < MaxWxClock
    /\ clock' = clock + 1
    /\ UNCHANGED <<profile, nreceived, push, tmp_messages, records, providers,
                   recency, sender, rest>>

\* one round of _repeat_loop after its sleep (lines 435-444, no await inside)
RepeatTick ==
    /\ profile \in {"repeat", "resend"}
    /\ records' = ConfirmRows(records, query_repeat_candidates(records))
    /\ UNCHANGED <<profile, clock, nreceived, push, tmp_messages, providers,
                   recency, sender, rest>>

\* the caller takes the envelope; the slot is free for the next push
Return(s) ==
    /\ push[s].pc = "done"
    /\ push' = [push EXCEPT ![s] = Idle]
    /\ UNCHANGED <<profile, clock, nreceived, tmp_messages, records, providers,
                   recency, sender, rest>>

\* sync_data_to_slave (line 386): the message is appended to the queue
sync_data_to_slave(msg, project_identify, msg_type) ==
    /\ profile = "sync"
    /\ sync_task.nenq < MaxSync
    /\ _sync_queue' = Append(_sync_queue,
                             SyncMsgBean(msg, project_identify, msg_type,
                                         sync_task.nenq + 1))
    /\ sync_task' = [sync_task EXCEPT !.nenq = @ + 1]
    /\ UNCHANGED <<profile, clock, nreceived, push, tmp_messages, records,
                   providers, recency, sender, logged, scheduler, wechat,
                   deployer>>

\* _sync_loop at the head of a round: with an empty queue it sleeps a second
\* (lines 390-392); else it pops the oldest message and, if there are targets,
\* offers it to the first one and awaits sleep(0) (lines 393-401)
SyncRound ==
    /\ profile = "sync"
    /\ sync_task.pc = "poll"
    /\ IF _sync_queue = <<>>
       THEN /\ sync_task' = [sync_task EXCEPT !.pc = "sleep"]
            /\ UNCHANGED _sync_queue
       ELSE LET got == popleft(_sync_queue)
                first == Len(alertmanager_slave_targets) > 0
            IN  /\ _sync_queue' = got.queue
                /\ sync_task' =
                     [sync_task EXCEPT
                        !.pc = IF first THEN "offer" ELSE "poll",
                        !.sync_msg = got.item,
                        !.target = IF first THEN 1 ELSE 0,
                        !.dequeued = Append(@, got.item),
                        !.offered = IF first
                                    THEN Append(@, <<got.item.n,
                                                     alertmanager_slave_targets[1]>>)
                                    ELSE @]
    /\ UNCHANGED <<profile, clock, nreceived, push, tmp_messages, records,
                   providers, recency, sender, logged, scheduler, wechat,
                   deployer>>

\* _sync_loop resumes after an await: after the sleep of a second it is at the
\* head of a round again; after sleep(0) it offers the message to the next
\* target, or has offered it to all and is at the head of a round
SyncResume ==
    /\ profile = "sync"
    /\ sync_task.pc \in {"sleep", "offer"}
    /\ sync_task' =
         IF sync_task.pc = "sleep" THEN [sync_task EXCEPT !.pc = "poll"]
         ELSE IF sync_task.target < Len(alertmanager_slave_targets)
         THEN [sync_task EXCEPT
                 !.target = @ + 1,
                 !.offered = Append(@, <<sync_task.sync_msg.n,
                                         alertmanager_slave_targets[sync_task.target + 1]>>)]
         ELSE [sync_task EXCEPT !.pc = "poll", !.target = 0]
    /\ UNCHANGED <<profile, clock, nreceived, push, tmp_messages, records,
                   providers, recency, sender, logged, scheduler, wechat,
                   _sync_queue, deployer>>

\* JbossCliExecutor.deploy is called (lines 58-96): for a request that is not
\* an undeploy the pre-clean writes its undeploy script and, when the CLI is
\* found, runs it; a CLI that is not found is an exception the pre-clean
\* swallows, and the call goes on with the backup and the deploy command
Deploy(is_undeploy, found, backup) ==
    LET c == [CliIdle EXCEPT !.is_undeploy = is_undeploy, !.found = found]
    IN  /\ profile = "jboss"
        /\ cli.pc \in {"idle", "done"}
        /\ cli' = IF ~is_undeploy /\ found
                  THEN Issue(c, "undeploy", "preclean", "preclean")
                  ELSE MainStage(c, backup)
        /\ UNCHANGED <<profile, clock, nreceived, push, tmp_messages, records,
                       providers, recency, sender, logged, scheduler, wechat,
                       slave, wait_queues, thread_pool, caller, executed>>

\* the run of the pre-clean's undeploy script ends (lines 385-393); the call
\* goes on with the backup and the deploy command
PrecleanEnds(outcome, backup) ==
    /\ cli.pc = "preclean"
    /\ cli' = IF PrecleanCaught(outcome)
              THEN MainStage(Ended(cli, outcome), backup)
              ELSE [Ended(cli, outcome) EXCEPT !.pc = "done", !.result = "raised"]
    /\ UNCHANGED <<profile, clock, nreceived, push, tmp_messages, records,
                   providers, recency, sender, logged, scheduler, wechat,
                   slave, wait_queues, thread_pool, caller, executed>>

\* the run of the deploy (or undeploy) command ends (lines 119-135): output
\* that is accepted is success, output that is not conclusive starts the
\* status query, anything else is a failure
RunEnds(outcome) ==
    /\ cli.pc = "run"
    /\ cli' = AfterPoll(Ended(cli, outcome), outcome)
    /\ UNCHANGED <<profile, clock, nreceived, push, tmp_messages, records,
                   providers, recency, sender, logged, scheduler, wechat,
                   slave, wait_queues, thread_pool, caller, executed>>

\* a run of the status query ends
PollEnds(outcome) ==
    /\ cli.pc = "poll"
    /\ cli' = AfterPoll(Ended(cli, outcome), outcome)
    /\ UNCHANGED <<profile, clock, nreceived, push, tmp_messages, records,
                   providers, recency, sender, logged, scheduler, wechat,
                   slave, wait_queues, thread_pool, caller, executed>>

\* EmailProvider.send on an event at clock reading now_ts: the common rules,
\* then, if they raise nothing, the rest of the send, which ends as ending says
EmailSend(event, now_ts, ending) ==
    LET r == _apply_common_rules(_per_minute, _last_send, event, now_ts)
    IN  /\ profile = "email"
        /\ Len(attempts) < MaxAttempts
        /\ r.exc # "None" => ending = "ok"
        /\ clock' = now_ts
        /\ _per_minute' = r._per_minute
        /\ _last_send' = r._last_send
        /\ attempts' = Append(attempts,
                              [event |-> event, time |-> now_ts, outcome |-> r.exc,
                               ending |-> IF r.exc # "None" THEN "skipped" ELSE ending])
        /\ UNCHANGED <<profile, nreceived, push, tmp_messages, records, providers,
                       recency, rest>>

\* submit, lines 87-96: the queue is looked up, and a thread is created and
\* started unless the server has one that is alive
submit(task) ==
    /\ profile = "invoker"
    /\ caller.pc = "idle"
    /\ caller.nsubmit < MaxTasks
    /\ task = DeployTask(caller.nsubmit + 1)
    /\ thread_pool' =
          IF thread_pool = <<>> \/ ~is_alive(thread_pool[Len(thread_pool)])
          THEN Append(thread_pool, DeployThread)
          ELSE thread_pool
    /\ caller' = [caller EXCEPT !.pc = "put", !.task = task.task_id,
                                !.nsubmit = @ + 1]
    /\ UNCHANGED <<profile, clock, nreceived, push, tmp_messages, records,
                   providers, recency, sender, logged, scheduler, wechat,
                   slave, cli, wait_queues, executed>>

\* submit, line 97: queue.put(task)
submit_put ==
    /\ caller.pc = "put"
    /\ wait_queues' = Append(wait_queues, caller.task)
    /\ caller' = [caller EXCEPT !.pc = "idle", !.task = 0]
    /\ UNCHANGED <<profile, clock, nreceived, push, tmp_messages, records,
                   providers, recency, sender, logged, scheduler, wechat,
                   slave, cli, thread_pool, executed>>

\* kill_server_tasks, lines 102-104: the server's thread is asked to stop
kill_server_tasks ==
    /\ profile = "invoker"
    /\ caller.pc = "idle"
    /\ caller.nkill < MaxKills
    /\ thread_pool' =
          IF thread_pool = <<>> THEN thread_pool
          ELSE [thread_pool EXCEPT ![Len(thread_pool)]._stop_event = TRUE]
    /\ caller' = [caller EXCEPT !.pc = "clear", !.nkill = @ + 1]
    /\ UNCHANGED <<profile, clock, nreceived, push, tmp_messages, records,
                   providers, recency, sender, logged, scheduler, wechat,
                   slave, cli, wait_queues, executed>>

\* kill_server_tasks, lines 105-108: the queue is cleared under its mutex
kill_clear ==
    /\ caller.pc = "clear"
    /\ wait_queues' = <<>>
    /\ caller' = [caller EXCEPT !.pc = "idle",
                     !.removed = @ \cup {wait_queues[i] : i \in 1..Len(wait_queues)}]
    /\ UNCHANGED <<profile, clock, nreceived, push, tmp_messages, records,
                   providers, recency, sender, logged, scheduler, wechat,
                   slave, cli, thread_pool, executed>>

\* DeployThread.run, line 48: the loop test; run returns when the stop event
\* is set
ThreadCheck(t) ==
    /\ thread_pool[t].pc = "check"
    /\ thread_pool' = [thread_pool EXCEPT ![t].pc =
          IF thread_pool[t]._stop_event THEN "dead" ELSE "get"]
    /\ UNCHANGED <<profile, clock, nreceived, push, tmp_messages, records,
                   providers, recency, sender, logged, scheduler, wechat,
                   slave, cli, wait_queues, caller, executed>>

\* DeployThread.run, lines 49-52: queue.get(timeout=1) returns the oldest
\* task, or raises Empty after a second without one
ThreadGet(t) ==
    /\ thread_pool[t].pc = "get"
    /\ IF wait_queues = <<>>
       THEN /\ thread_pool' = [thread_pool EXCEPT ![t].pc = "check"]
            /\ UNCHANGED wait_queues
       ELSE /\ thread_pool' = [thread_pool EXCEPT ![t].pc = "run",
                                                  ![t].task = Head(wait_queues)]
            /\ wait_queues' = Tail(wait_queues)
    /\ UNCHANGED <<profile, clock, nreceived, push, tmp_messages, records,
                   providers, recency, sender, logged, scheduler, wechat,
                   slave, cli, caller, executed>>

\* DeployThread.run, lines 53-58: the executor is called with the task and
\* returns or raises, and the loop goes back to its test
ThreadRun(t) ==
    /\ thread_pool[t].pc = "run"
    /\ executed' = Append(executed, thread_pool[t].task)
    /\ thread_pool' = [thread_pool EXCEPT ![t].pc = "check", ![t].task = 0]
    /\ UNCHANGED <<profile, clock, nreceived, push, tmp_messages, records,
                   providers, recency, sender, logged, scheduler, wechat,
                   slave, cli, wait_queues, caller>>

Next ==
    \/ \E s \in Slots : \E req \in Requests(profile) :
          \E now_ts \in clock..MaxClock : Receive(s, req, now_ts)
    \/ \E s \in Slots : SkipChannel(s)
    \/ \E s \in Slots : SendChannel(s)
    \/ \E s \in Slots : \E repo_ok \in BOOLEAN : Persist(s, repo_ok)
    \/ \E s \in Slots : Return(s)
    \/ RepeatTick
    \/ \E event \in SendEvents : \E now_ts \in clock..MaxSendClock :
          ApplyCommonRules(event, now_ts)
    \/ \E event \in SendEvents : \E now_ts \in clock..MaxSendClock :
          LoggingSend(event, now_ts)
    \/ \E snapshot \in SnapshotInputs : Track(snapshot)
    \/ \E now_ts \in clock..MaxClock : ResendTick(now_ts)
    \/ \E outcome \in {"ok", "MsgSendException", "Exception"} :
          ResendSent(outcome)
    \/ Shutdown
    \/ \E t \in WxTasks : \E configured \in BOOLEAN : WxSend(t, configured)
    \/ \E t \in WxTasks : WxAcquire(t)
    \/ \E t \in WxTasks : \E reply \in GetReplies : WxTokenReply(t, reply)
    \/ \E t \in WxTasks : \E reply \in PostReplies : WxPostReply(t, reply)
    \/ \E t \in WxTasks : WxTransportError(t)
    \/ TimePasses
    \/ \E event \in EmailEvents : \E now_ts \in clock..MaxSendClock :
          \E ending \in EmailOutcomes : EmailSend(event, now_ts, ending)
    \/ \E m \in SyncInputs : sync_data_to_slave(m[1], m[2], m[3])
    \/ SyncRound
    \/ SyncResume
    \/ \E is_undeploy, found \in BOOLEAN : \E backup \in BackupOutcomes :
          Deploy(is_undeploy, found, backup)
    \/ \E outcome \in CliOutcomes : \E backup \in BackupOutcomes :
          PrecleanEnds(outcome, backup)
    \/ \E outcome \in CliOutcomes : RunEnds(outcome)
    \/ \E outcome \in CliOutcomes : PollEnds(outcome)
    \/ \E n \in 1..MaxTasks : submit(DeployTask(n))
    \/ submit_put
    \/ kill_server_tasks
    \/ kill_clear
    \/ \E t \in 1..Len(thread_pool) : ThreadCheck(t)
    \/ \E t \in 1..Len(thread_pool) : ThreadGet(t)
    \/ \E t \in 1..Len(thread_pool) : ThreadRun(t)

Spec == Init /\ [][Next]_vars

(***************************************************************************)
(* Properties.                                                             *)
(***************************************************************************)
\* the slots whose push has just finished its persistence step
Finished == {s \in Slots : push[s].pc = "done" /\ push[s].record # NoRecord}

\* the stored records that carry a key
RecordsOf(k) ==
    {rid \in DOMAIN records :
        cache_key(records[rid].event_id, records[rid].project) = k}

\* C1: a push invokes save_record only if its key was not in the DedupCache
\* when its persistence step began, the key is stamped by the step that stores
\* the record, and while no key can have been evicted no key has more than one
\* stored record, however the concurrent pushes interleave
C1_PersistedAtMostOnce ==
    /\ \A s \in Finished :
          push[s].calls.save = 1 =>
             /\ push[s].already = "None"
             /\ (push[s].response = "success" =>
                    KeyOf(push[s]) \in KeysOf(tmp_messages))
    /\ nreceived <= MAX_CACHE_SIZE =>
          \A k \in AllKeys : Cardinality(RecordsOf(k)) <= 1

\* a create handled while another push of the same key was in flight: the
\* push received first persists last and is dropped as a duplicate
C1_Witness ==
    \E s \in Finished :
        /\ profile = "race"
        /\ push[s].persisted = "dup_create"
        /\ push[s].calls.save = 0
        /\ \E rid \in RecordsOf(KeyOf(push[s])) :
               rid > push[s].record.alertitem_record_id

\* C2 (as the code has it): a recover event whose key is already stamped
\* never invokes save_record and stores no record, but it does invoke
\* mark_recovered again and re-stamps the key as was-recover; an event of any
\* other type whose key is stamped makes no repository call and leaves the
\* cache as it is
C2_StampedRecoverMarksAgain ==
    \A s \in Finished :
        push[s].already # "None" =>
           IF push[s].record.event_type = EVENT_TYPE_RECOVER
           THEN /\ push[s].calls = [save |-> 0, mark |-> 1]
                /\ push[s].record.alertitem_record_id \notin DOMAIN records
                /\ (push[s].response = "success" =>
                       tmp_messages[Len(tmp_messages)] =
                           [key |-> KeyOf(push[s]), is_recover |-> TRUE])
           ELSE /\ push[s].calls = [save |-> 0, mark |-> 0]
                /\ push[s].persisted \in {"dup_recover", "dup_create"}

\* a second recover of a key that an earlier recover stamped
C2_Witness ==
    \E s \in Finished :
        /\ push[s].record.event_type = EVENT_TYPE_RECOVER
        /\ push[s].already = "True"
        /\ push[s].persisted = "marked"
        /\ push[s].calls.mark = 1

\* C2 as stated: the recover of a key that a recover already stamped invokes
\* neither save_record nor mark_recovered
C2_DuplicateRecoverDropped ==
    \A s \in Finished :
        (push[s].record.event_type = EVENT_TYPE_RECOVER /\ push[s].already = "True")
            => push[s].calls = [save |-> 0, mark |-> 0]

\* C3: the DedupCache never holds more than MAX_CACHE_SIZE entries, its order
\* is the order in which its keys were last stamped, and stamping a key it
\* does not hold removes an entry only when the cache is full, and then
\* exactly the least recently stamped one
C3_BoundedLeastRecentEvicted ==
    /\ Len(tmp_messages) <= MAX_CACHE_SIZE
    /\ Cardinality(KeysOf(tmp_messages)) = Len(tmp_messages)
    /\ KeyOrder(tmp_messages) = recency
    /\ \A k \in AllKeys \ KeysOf(tmp_messages) : \A flag \in BOOLEAN :
          LET od == add_tmp_message(tmp_messages, k[1], k[2], flag)
          IN  /\ Len(od) <= MAX_CACHE_SIZE
              /\ od[Len(od)] = [key |-> k, is_recover |-> flag]
              /\ KeysOf(tmp_messages) \ KeysOf(od) =
                    IF Len(tmp_messages) = MAX_CACHE_SIZE
                    THEN {recency[1]} ELSE {}

\* a full cache from which the key of a stored record has been evicted
C3_Witness ==
    /\ Len(tmp_messages) = MAX_CACHE_SIZE
    /\ \E rid \in DOMAIN records :
          cache_key(records[rid].event_id, records[rid].project)
              \notin KeysOf(tmp_messages)

\* C4: stamping a key the DedupCache already holds leaves its size as it is,
\* overwrites the stored flag and moves the key behind every other key, which
\* keep their order
C4_RestampRefreshes ==
    /\ \A i \in 1..Len(tmp_messages) : \A flag \in BOOLEAN :
          LET k == tmp_messages[i].key
              od == add_tmp_message(tmp_messages, k[1], k[2], flag)
          IN  /\ Len(od) = Len(tmp_messages)
              /\ od[Len(od)] = [key |-> k, is_recover |-> flag]
              /\ SubSeq(od, 1, Len(od) - 1) =
                    SelectSeq(tmp_messages, LAMBDA e : e.key # k)
    /\ \A s \in Finished :
          (push[s].persisted = "marked" /\ push[s].already # "None") =>
              /\ tmp_messages[Len(tmp_messages)] =
                    [key |-> KeyOf(push[s]), is_recover |-> TRUE]
              /\ KeyOrder(tmp_messages) = recency

\* a key stamped first, re-stamped by its recover, that outlives in a full
\* cache a key that was stamped after its first stamp
C4_Witness ==
    /\ Len(tmp_messages) = MAX_CACHE_SIZE
    /\ tmp_messages[1].is_recover
    /\ \E r1, r2 \in DOMAIN records :
          /\ r1 < r2
          /\ cache_key(records[r1].event_id, records[r1].project)
                 = tmp_messages[1].key
          /\ cache_key(records[r2].event_id, records[r2].project)
                 \notin KeysOf(tmp_messages)

\* the rule of an alert code has channels
RuleHasChannels(code) ==
    has_msg_send_rules(code) /\ get_msg_send_rules(code).msgChannels # <<>>

\* the rule of an alert code is globally forbidden
RuleForbidden(code) ==
    RuleHasChannels(code) /\ get_msg_send_rules(code).is_forbid = FORBID_YES

\* the rule of an alert code suppresses recover notifications
RuleSuppressesRecover(code) ==
    RuleHasChannels(code)
        /\ get_msg_send_rules(code).recover_msg_notsend = FORBID_YES_INT

\* what provider.send can leave in the log of the dispatch loop
ProviderOutcomes == {"ok", "MsgSendException", "Exception"}

\* the three conditions under which the dispatcher skips a channel
BlockedByForbid(record, ch) == ch.channel_id \in record.forbidChannels

ChannelUnusable(ch) == ch.is_invalid = CAN_NOT_USE \/ ch.is_del = CAN_NOT_USE

GroupMismatch(record, ch) ==
    LET inner == RemoveChar(RemoveChar(ch.mapper_monitor_group, "["), "]")
    IN  /\ ch.mapper_monitor_group # <<>>
        /\ Lower(ch.mapper_monitor_group) # <<"[", "a", "l", "l", "]">>
        /\ inner # <<>>
        /\ ~Contains(record.project_group, inner)

PassesChecks(record, ch) ==
    ~BlockedByForbid(record, ch) /\ ~ChannelUnusable(ch) /\ ~GroupMismatch(record, ch)

\* the slots whose push went into the dispatch loop
Dispatching == {s \in Slots : push[s].decision = "dispatch"}

\* C5: a push whose rule has channels and is globally forbidden never enters
\* the dispatch loop and reaches no provider; it ends with comment
\* NOT_SEND_RULE_FORBID and outcome "1", also on the record it stores
C5_RuleForbidNoSend ==
    \A s \in Slots :
        LET p == push[s]
            rid == p.record.alertitem_record_id
        IN  (p.record # NoRecord /\ RuleForbidden(p.record.alertitem_code)) =>
               /\ p.pc \in {"persist", "done"}
               /\ p.sends = <<>>
               /\ p.pc = "done" =>
                     /\ p.record.comment = "NOT_SEND_RULE_FORBID"
                     /\ p.record.record_statu = "1"
               /\ rid \in DOMAIN records =>
                     /\ records[rid].comment = "NOT_SEND_RULE_FORBID"
                     /\ records[rid].record_statu = "1"

\* a finished create push of the forbidden rule F, stored with outcome "1"
C5_Witness ==
    \E s \in Finished :
        /\ RuleForbidden(push[s].record.alertitem_code)
        /\ push[s].persisted = "saved"
        /\ push[s].sends = <<>>
        /\ records[push[s].record.alertitem_record_id].record_statu = "1"

\* C6: the decision chain is ordered: no rule or no channels ("2", NOT_SEND),
\* then a globally forbidden rule ("1"), then a recover event under a rule
\* that suppresses recover notifications ("10", NOT_SEND_RECOVER_FORBID, no
\* provider reached); the dispatch loop runs only when none of the three holds
C6_DecisionOrder ==
    \A s \in Slots :
        LET p == push[s]
            code == p.record.alertitem_code
            first == ~RuleHasChannels(code)
            second == ~first /\ RuleForbidden(code)
            third == /\ ~first /\ ~second
                     /\ p.record.event_type = EVENT_TYPE_RECOVER
                     /\ RuleSuppressesRecover(code)
            final == <<p.record.record_statu, p.record.comment>>
        IN  p.record # NoRecord =>
               /\ (first \/ second \/ third) <=> (p.decision # "dispatch")
               /\ (first \/ second \/ third) => p.sends = <<>>
               /\ (p.pc = "done" /\ first) => final = <<"2", "NOT_SEND">>
               /\ (p.pc = "done" /\ second) => final = <<"1", "NOT_SEND_RULE_FORBID">>
               /\ (p.pc = "done" /\ third) => final = <<"10", "NOT_SEND_RECOVER_FORBID">>

\* a finished recover push under rule R, which suppresses recover notifications
C6_Witness ==
    \E s \in Finished :
        /\ push[s].record.event_type = EVENT_TYPE_RECOVER
        /\ RuleSuppressesRecover(push[s].record.alertitem_code)
        /\ ~RuleForbidden(push[s].record.alertitem_code)
        /\ push[s].record.record_statu = "10"
        /\ push[s].sends = <<>>
        /\ push[s].response = "success"

C8_OutcomeOfLastChannel ==
    \A s \in Finished \cap Dispatching :
        LET p == push[s]
        IN  /\ p.response = "success"
            /\ Len(p.sends) = Len(ChannelsOf(p))
            /\ \A i \in 1..Len(p.sends) : p.sends[i] # "nosend"
            => /\ (\A i \in 1..Len(p.sends) : p.sends[i] # "ok") =>
                      p.record.record_statu \in {"1", "2", "3", "9"}
               /\ p.record.record_statu = "0" =>
                      \E i \in 1..Len(p.sends) : p.sends[i] = "ok"

C10_AlwaysEnvelope ==
    \A s \in Slots :
        /\ push[s].pc \in {"idle", "dispatch", "persist", "done"}
        /\ push[s].pc = "done" <=> push[s].response \in {"success", "error"}
        /\ push[s].pc # "done" => push[s].response = "None"

\* a push that ends with the error envelope because save_record raised
C10_Witness ==
    \E s \in Finished :
        /\ push[s].response = "error"
        /\ push[s].calls.save = 1
        /\ push[s].persisted = "None"

\* the entries of the dispatch log of a push that are failed sends
FailedSends(p) ==
    {i \in 1..Len(p.sends) : p.sends[i] \in {"MsgSendException", "Exception"}}

\* C11: a failed send never ends a push: after it the push is still in the
\* dispatch loop or at its persistence step, a push whose loop has visited
\* every channel runs the persistence step, and its envelope is the error
\* envelope only if the repository call of that step raised
C11_SendFailureStillSuccess ==
    \A s \in Dispatching :
        LET p == push[s]
        IN  FailedSends(p) # {} =>
               /\ p.pc \in {"dispatch", "persist", "done"}
               /\ (p.pc # "done" => p.response = "None")
               /\ (p.pc = "done" /\ Len(p.sends) = Len(ChannelsOf(p))) =>
                     /\ p.calls.save + p.calls.mark > 0 \/ p.persisted # "None"
                     /\ p.response = "success" <=> p.persisted # "None"

\* a push in which every send failed, at least two of them, that returned
\* the success envelope and stored its record
C11_Witness ==
    \E s \in Finished \cap Dispatching :
        /\ Cardinality(FailedSends(push[s])) >= 2
        /\ \A i \in 1..Len(push[s].sends) : push[s].sends[i] # "ok"
        /\ push[s].response = "success"
        /\ push[s].persisted = "saved"
        /\ push[s].record.alertitem_record_id \in DOMAIN records

\* a string in bracketed form: it starts with "[" and holds a "]"
Bracketed(str) == Len(str) > 0 /\ str[1] = "[" /\ \E i \in 1..Len(str) : str[i] = "]"

\* the requests that are malformed or carry an unknown alert code
Rejected(req) ==
    IF req.kind = "zbx"
    THEN \/ req.payload.empty
         \/ req.payload.nparts < 9
         \/ ~Bracketed(req.payload.group)
         \/ ~Bracketed(req.payload.alert_msg)
    ELSE \/ req.payload.kind \in {"empty", "notjson"}
         \/ /\ req.payload.kind = "dict"
            /\ Upper(IF req.payload.has_code THEN req.payload.alertcode
                     ELSE ALERTCODE_DEFAULT_BUSI) \notin DOMAIN alertitems

\* C12: the push of a malformed request, or of a JSON request with an unknown
\* alert code, ends at once with the error envelope and without a record, and
\* leaves the cache, the repository, the provider registry and every other
\* push as they were
C12_RejectedLeavesStateUnchanged ==
    [][\A s \in Slots : \A req \in Requests(profile) : \A now_ts \in 1..MaxClock :
          (/\ nreceived' = nreceived + 1
           /\ clock' = now_ts
           /\ push[s].pc = "idle"
           /\ push'[s].pc # "idle"
           /\ Rejected(req)
           /\ Receive(s, req, now_ts)) =>
              /\ push'[s].pc = "done"
              /\ push'[s].response = "error"
              /\ push'[s].record = NoRecord
              /\ push'[s].sends = <<>>
              /\ push'[s].calls = [save |-> 0, mark |-> 0]
              /\ \A t \in Slots \ {s} : push'[t] = push[t]
              /\ UNCHANGED <<tmp_messages, records, providers, recency, sender,
                             rest>>]_vars

\* a rejected push, answered while the cache and the repository hold the
\* traces of earlier pushes
C12_Witness ==
    \E s \in Slots :
        /\ push[s].pc = "done"
        /\ push[s].record = NoRecord
        /\ push[s].response = "error"
        /\ tmp_messages # <<>>
        /\ DOMAIN records # {}

(***************************************************************************)
(* The provider's common rules, read off the history of its calls.         *)
(***************************************************************************)
\* the attempts before the n-th on the channel of the n-th that the throttle
\* admitted at a time the window of the n-th still holds
AdmittedInWindowBefore(n) ==
    {i \in 1..(n - 1) :
        /\ attempts[i].event.msgChannel.channel_id
             = attempts[n].event.msgChannel.channel_id
        /\ attempts[i].outcome # "exceeded"
        /\ attempts[i].time + SendWindow >= attempts[n].time}

\* the attempts on channel id ch the throttle admitted at a time in [a, a + SendWindow]
AdmittedWithin(ch, a) ==
    {i \in 1..Len(attempts) :
        /\ attempts[i].event.msgChannel.channel_id = ch
        /\ attempts[i].outcome # "exceeded"
        /\ attempts[i].time >= a
        /\ attempts[i].time <= a + SendWindow}

\* C13: for a channel with a positive send rate N the throttle admits at most
\* N attempts within any window of the channel id; an attempt is refused as
\* exceeding the rate exactly when N admitted attempts are still inside its
\* window, so the (N+1)-th inside the window is refused and an attempt made
\* after the older ones left the window is admitted again.
C13_ThrottleSlidingWindow ==
    /\ \A ev \in SendEvents : \A a \in 0..MaxSendClock :
         ev.msgChannel.send_rate > 0
           => Cardinality(AdmittedWithin(ev.msgChannel.channel_id, a))
                <= ev.msgChannel.send_rate
    /\ \A n \in 1..Len(attempts) :
         (attempts[n].outcome = "exceeded")
           <=> /\ attempts[n].event.msgChannel.send_rate > 0
               /\ Cardinality(AdmittedInWindowBefore(n))
                    >= attempts[n].event.msgChannel.send_rate

\* C13: N attempts were admitted, the next one inside the window was refused,
\* and one made after the window had passed was admitted again
C13_Witness ==
    \E i, j, k \in 1..Len(attempts) :
        /\ i < j /\ j < k
        /\ attempts[i].event.msgChannel.send_rate = 1
        /\ attempts[j].event = attempts[i].event
        /\ attempts[k].event = attempts[i].event
        /\ attempts[i].outcome = "None"
        /\ attempts[j].outcome = "exceeded"
        /\ attempts[j].time <= attempts[i].time + SendWindow
        /\ attempts[k].outcome = "None"
        /\ attempts[k].time > attempts[i].time + SendWindow

\* whether an attempt goes through the resend timer: a create-type event
\* under a rule with a positive minimum resend interval
Timed(event) ==
    /\ event.alertitemRecord.event_type = EVENT_TYPE_CREATE
    /\ event.msgSendRules.same_alert_resend_mintime > 0

\* the attempts before the n-th with the key of the n-th that started the timer
StartedBefore(n) ==
    {i \in 1..(n - 1) :
        /\ SendKey(attempts[i].event.alertitemRecord, attempts[i].event.msgChannel)
             = SendKey(attempts[n].event.alertitemRecord, attempts[n].event.msgChannel)
        /\ Timed(attempts[i].event)
        /\ attempts[i].outcome = "None"}

\* the time of the last attempt before the n-th that started the timer (0: none)
LastAdmittedBefore(n) ==
    IF StartedBefore(n) = {} THEN 0
    ELSE attempts[CHOOSE i \in StartedBefore(n) : \A j \in StartedBefore(n) : j <= i].time

\* C14: the resend timer rejects only create-type events under a positive
\* minimum resend interval; an attempt the throttle let through is rejected
\* exactly when the interval has not passed since the last admitted attempt
\* with its key, so a rejected attempt does not restart the timer; the timer of
\* a key is the time of its last admitted attempt.
C14_ResendSuppression ==
    /\ \A n \in 1..Len(attempts) :
         (attempts[n].outcome = "resend")
           <=> /\ Timed(attempts[n].event)
               /\ Cardinality(AdmittedInWindowBefore(n))
                    < attempts[n].event.msgChannel.send_rate
                  \/ attempts[n].event.msgChannel.send_rate <= 0
               /\ LastAdmittedBefore(n) # 0
               /\ attempts[n].time - LastAdmittedBefore(n)
                    <= attempts[n].event.msgSendRules.same_alert_resend_mintime
    /\ \A n \in 1..Len(attempts) :
         LET key == SendKey(attempts[n].event.alertitemRecord,
                            attempts[n].event.msgChannel)
         IN  (\A m \in (n + 1)..Len(attempts) :
                 SendKey(attempts[m].event.alertitemRecord,
                         attempts[m].event.msgChannel) # key
                 \/ ~Timed(attempts[m].event) \/ attempts[m].outcome # "None")
             => _last_send[key]
                  = IF Timed(attempts[n].event) /\ attempts[n].outcome = "None"
                    THEN attempts[n].time ELSE LastAdmittedBefore(n)

\* C14: an attempt was admitted, the next with its key was rejected as too
\* soon, and a third was admitted although the interval had not passed since
\* the rejected one; a recover-type event with the key passed meanwhile
C14_Witness ==
    \E i, j, k \in 1..Len(attempts) :
        /\ i < j /\ j < k
        /\ Timed(attempts[i].event)
        /\ attempts[j].event = attempts[i].event
        /\ attempts[k].event = attempts[i].event
        /\ attempts[i].outcome = "None"
        /\ attempts[j].outcome = "resend"
        /\ attempts[k].outcome = "None"
        /\ attempts[k].time - attempts[j].time
             <= attempts[i].event.msgSendRules.same_alert_resend_mintime

\* the pushes that ended by marking their record recovered
Marked == {s \in Finished : push[s].persisted = "marked"}

\* C15: mark_recovered for a record the repository does not know affects 0
\* rows, creates no record and leaves every stored record as it was, the
\* second time as the first: the record of a recover push is never stored,
\* its mark reports 0 rows, no stored record is of a recover event, and marking
\* it again, once or twice, gives the repository back unchanged.
C15_MarkUnknownZeroEffect ==
    /\ \A s \in Marked :
         /\ push[s].record.alertitem_record_id \notin DOMAIN records
         /\ push[s].effect = 0
         /\ mark_recovered_effect(records, push[s].record) = 0
         /\ mark_recovered(records, push[s].record) = records
         /\ mark_recovered(mark_recovered(records, push[s].record),
                           push[s].record) = records
         /\ mark_recovered_effect(mark_recovered(records, push[s].record),
                                  push[s].record) = 0
    /\ \A rid \in DOMAIN records : records[rid].event_type # EVENT_TYPE_RECOVER

\* C15: a recover push marked its record, unknown to a repository that
\* stores the open record of the same alert
C15_Witness ==
    \E s \in Marked : \E rid \in DOMAIN records :
        /\ push[s].effect = 0
        /\ records[rid].event_id = push[s].record.event_id
        /\ records[rid].project = push[s].record.project
        /\ rid # push[s].record.alertitem_record_id

\* the open records grouped with rid that nobody confirmed
Unconfirmed(repo, rid) ==
    {o \in GroupOf(repo, rid) : repo[o].is_confirm = CONFIRM_NO}

\* a round of the repeat loop left every group of open records with exactly
\* one unconfirmed record, one of the most recently added
OneLatestUnconfirmed(repo) ==
    \A rid \in OpenRecords(repo) :
        /\ Cardinality(Unconfirmed(repo, rid)) = 1
        /\ \A o \in Unconfirmed(repo, rid) : \A x \in GroupOf(repo, rid) :
               repo[x].add_time <= repo[o].add_time

\* C16: a round of the repeat loop over open records none of which was
\* confirmed leaves every group of open records with exactly one unconfirmed
\* record, the most recently added, whatever the add-times in the group,
\* equal ones included.
C16_ExactlyOneUnconfirmed ==
    [][(/\ RepeatTick
        /\ \A rid \in OpenRecords(records) : records[rid].is_confirm = CONFIRM_NO)
       => OneLatestUnconfirmed(records')]_vars

\* the same for groups whose records were all added at different times
C16_DistinctAddTimes ==
    [][(/\ RepeatTick
        /\ \A rid \in OpenRecords(records) :
             /\ records[rid].is_confirm = CONFIRM_NO
             /\ \A o \in GroupOf(records, rid) \ {rid} :
                  records[o].add_time # records[rid].add_time)
       => OneLatestUnconfirmed(records')]_vars

\* a round of the repeat loop confirmed the older record of a group of two
\* added at different times and left the newer one unconfirmed
C16_DistinctWitness ==
    \E a, b \in OpenRecords(records) :
        /\ a # b
        /\ GroupKey(records[a]) = GroupKey(records[b])
        /\ records[a].add_time < records[b].add_time
        /\ records[a].is_confirm = CONFIRM_YES
        /\ records[b].is_confirm = CONFIRM_NO

(***************************************************************************)
(* Forbid rules, read off the records of the pushes.  The clock reading of *)
(* _check_forbid_rules is the record's add_time.                           *)
(***************************************************************************)
\* the pushes whose payload was parsed into a record
Ingested == {s \in Slots : push[s].record # NoRecord}

\* the window of a forbid rule holds the clock reading t
InWindow(forbid, t) ==
    /\ forbid.begTime # 0 /\ forbid.endTime # 0
    /\ forbid.begTime <= t /\ t <= forbid.endTime

\* a dimension that is the sentinel set matches; any other by membership
DimMatches(values, candidate) == values = {"NULL"} \/ candidate \in values

\* the three dimensions of a forbid rule with the record's candidate for each
Dimensions(forbid, record) ==
    { <<forbid.ips, record.hostip>>,
      <<forbid.alertCodes, record.alertitem_code>>,
      <<forbid.projects, record.project>> }

\* the host constraint of a forbid rule, if any, matches the record
HostMatches(forbid, record) ==
    forbid.hosts = {}
    \/ \E h \in forbid.hosts : Contains(Lower(record.hostname), Lower(h))

\* C17: a dimension whose set is exactly {"NULL"} matches every candidate, a
\* dimension with another non-empty set matches exactly its members; so a
\* record is under a forbid rule whenever a rule in its window, with all
\* dimensions non-empty, matches on each dimension in this sense, and a
\* record under a forbid rule has the type and channels of such a rule.
C17_SentinelAndMembership ==
    \A s \in Ingested :
        LET record == push[s].record
            fits(i) ==
                /\ InWindow(msg_send_forbid_objs[i], record.add_time)
                /\ HostMatches(msg_send_forbid_objs[i], record)
                /\ \A d \in Dimensions(msg_send_forbid_objs[i], record) :
                      d[1] # {} /\ DimMatches(d[1], d[2])
        IN  /\ \A i \in DOMAIN msg_send_forbid_objs :
                \A d \in Dimensions(msg_send_forbid_objs[i], record) :
                   /\ d[1] = {"NULL"} => _match_forbid(d[1], d[2])
                   /\ d[1] # {} /\ d[1] # {"NULL"}
                        => (_match_forbid(d[1], d[2]) <=> d[2] \in d[1])
            /\ (\E i \in DOMAIN msg_send_forbid_objs : fits(i))
                 => record.forbidRuleType # "None"
            /\ record.forbidRuleType # "None"
                 => \E i \in DOMAIN msg_send_forbid_objs :
                       /\ fits(i)
                       /\ record.forbidRuleType = msg_send_forbid_objs[i].forbidType
                       /\ record.forbidChannels = msg_send_forbid_objs[i].channels

\* C17: a record is under the second rule, whose ips are {"NULL"}, through
\* an ip no rule names for its project and a code that is a member of the
\* rule's codes; the first rule, whose codes are {"NULL"} and whose ips hold
\* the record's, did not match it because its projects do not hold the record's
C17_Witness ==
    \E s \in Ingested :
        LET record == push[s].record
        IN  /\ msg_send_forbid_objs[2].ips = {"NULL"}
            /\ record.alertitem_code \in msg_send_forbid_objs[2].alertCodes
            /\ record.forbidRuleType = msg_send_forbid_objs[2].forbidType
            /\ record.forbidChannels = msg_send_forbid_objs[2].channels
            /\ InWindow(msg_send_forbid_objs[1], record.add_time)
            /\ record.hostip \in msg_send_forbid_objs[1].ips
            /\ msg_send_forbid_objs[1].alertCodes = {"NULL"}
            /\ record.project \notin msg_send_forbid_objs[1].projects

\* a forbid rule applies to a record when each of its dimensions is empty or
\* matches, and its host constraint matches
AppliesUnlessConstrained(forbid, record) ==
    /\ InWindow(forbid, record.add_time)
    /\ HostMatches(forbid, record)
    /\ \A d \in Dimensions(forbid, record) : d[1] = {} \/ DimMatches(d[1], d[2])

\* C18: a forbid rule whose window holds now applies to a record if and only
\* if every non-empty dimension among ip, alert code and project matches the
\* record and the host constraint matches; an empty dimension does not
\* constrain the rule, so the record of a push such a rule applies to is
\* under a forbid rule.
C18_EmptyDimensionUnconstrained ==
    \A s \in Ingested :
        /\ \A i \in DOMAIN msg_send_forbid_objs :
              ForbidApplies(msg_send_forbid_objs[i], push[s].record,
                            push[s].record.add_time)
                <=> AppliesUnlessConstrained(msg_send_forbid_objs[i], push[s].record)
        /\ (\E i \in DOMAIN msg_send_forbid_objs :
               AppliesUnlessConstrained(msg_send_forbid_objs[i], push[s].record))
             => push[s].record.forbidRuleType # "None"

\* what the loop does with a forbid rule that has an empty dimension among
\* ip, alert code and project: it never applies
C18_EmptyDimensionNeverApplies ==
    \A s \in Ingested : \A i \in DOMAIN msg_send_forbid_objs :
        ({} \in {d[1] : d \in Dimensions(msg_send_forbid_objs[i], push[s].record)})
          => ~ForbidApplies(msg_send_forbid_objs[i], push[s].record,
                            push[s].record.add_time)

\* the positions of the forbid rules that apply to a record
Applying(record) ==
    {i \in DOMAIN msg_send_forbid_objs :
        ForbidApplies(msg_send_forbid_objs[i], record, record.add_time)}

\* C19: the forbid rules are evaluated in load order and the first that
\* matches wins: a record several rules match has the forbid type and the
\* forbidden channels of the earliest of them in the loaded list.
C19_FirstMatchWins ==
    \A s \in Ingested :
        Applying(push[s].record) # {}
          => LET first == CHOOSE i \in Applying(push[s].record) :
                              \A j \in Applying(push[s].record) : i <= j
             IN  /\ push[s].record.forbidRuleType
                      = msg_send_forbid_objs[first].forbidType
                 /\ push[s].record.forbidChannels
                      = msg_send_forbid_objs[first].channels

\* what the loop does: the last rule that matches wins
C19_LastMatchWins ==
    \A s \in Ingested :
        Applying(push[s].record) # {}
          => LET last == CHOOSE i \in Applying(push[s].record) :
                             \A j \in Applying(push[s].record) : j <= i
             IN  /\ push[s].record.forbidRuleType
                      = msg_send_forbid_objs[last].forbidType
                 /\ push[s].record.forbidChannels
                      = msg_send_forbid_objs[last].channels

(***************************************************************************)
(* The alert code of a Zabbix record.                                      *)
(***************************************************************************)
\* the text before the first c of str (all of str when it has none)
RECURSIVE Before(_, _)
Before(str, c) ==
    IF str = <<>> \/ Head(str) = c THEN <<>>
    ELSE <<Head(str)>> \o Before(Tail(str), c)

\* C20: the alert code of the record parsed from a Zabbix line of at least 9
\* fields with bracketed project-group and message fields is the upper-cased
\* text between the first "[" and the first "]" of the ninth field, which the
\* record keeps as alert_msg.
C20_CodeBetweenFirstBrackets ==
    \A s \in Ingested :
        Bracketed(push[s].record.alert_msg)
          => push[s].record.alertitem_code
               = Upper(Before(Tail(push[s].record.alert_msg), "]"))

\* C20: a record was parsed from a line whose ninth field has a lower-case
\* code and a second "]" after the one that ends the code
C20_Witness ==
    \E s \in Ingested :
        LET alert_msg == push[s].record.alert_msg
        IN  /\ Bracketed(alert_msg)
            /\ \E i, j \in 1..Len(alert_msg) :
                  i < j /\ alert_msg[i] = "]" /\ alert_msg[j] = "]"
            /\ Before(Tail(alert_msg), "]") # <<>>
            /\ Upper(Before(Tail(alert_msg), "]")) # Before(Tail(alert_msg), "]")
            /\ push[s].record.alertitem_code
                 = Upper(Before(Tail(alert_msg), "]"))

\* the pushes of a JSON payload for alert code R, whose rule has the mail
\* channel alone, enabled and forbidden by no rule, that have returned
JsonOneChannel ==
    {s \in Slots : /\ push[s].pc = "done"
                   /\ push[s].record # NoRecord
                   /\ push[s].record.msgJsoninfo.present
                   /\ push[s].record.alertitem_code = <<"R">>}

C29_UnmappedNeverBlocks ==
    \A s \in Dispatching :
        LET p == push[s]
        IN  p.pc = "done" =>
               /\ Len(p.sends) = Len(ChannelsOf(p))
               /\ p.calls.save + p.calls.mark > 0 \/ p.persisted # "None"

\* the sends the logging provider performed on channel id ch at a time in
\* [a, a + SendWindow]
LoggedWithin(ch, a) ==
    {i \in 1..Len(logged) :
        /\ logged[i].event.msgChannel.channel_id = ch
        /\ logged[i].time >= a
        /\ logged[i].time <= a + SendWindow}

\* C30: the rate limit is applied before every send whichever provider serves
\* the channel, the logging fallback included: on a channel with a positive
\* send rate N no provider performs more than N sends within a window
C30_CommonRulesEveryProvider ==
    /\ \A ev \in SendEvents : \A a \in 0..MaxSendClock :
         ev.msgChannel.send_rate > 0
           => Cardinality(AdmittedWithin(ev.msgChannel.channel_id, a))
                <= ev.msgChannel.send_rate
    /\ \A ev \in SendEvents : \A a \in 0..MaxSendClock :
         ev.msgChannel.send_rate > 0
           => Cardinality(LoggedWithin(ev.msgChannel.channel_id, a))
                <= ev.msgChannel.send_rate

\* the sends of a push that succeeded, as positions in its rule's channels
SucceededSends(p) == {i \in 1..Len(p.sends) : p.sends[i] = "ok"}

\* C22: after a successful create-type dispatch on a channel under a rule with
\* a positive repeat interval a snapshot for that record and channel is
\* tracked in the resend map
C22_SnapshotTracked ==
    \A s \in Dispatching :
        LET p == push[s]
        IN  \A i \in SucceededSends(p) :
               /\ p.record.event_type = EVENT_TYPE_CREATE
               /\ get_msg_send_rules(p.record.alertitem_code).repeat_send_interval > 0
               => \E n \in 1..Len(resend_snapshot) :
                     /\ resend_snapshot[n].record_id = p.record.alertitem_record_id
                     /\ resend_snapshot[n].msgChannel = ChannelsOf(p)[i]

\* the send count a snapshot had when it was placed in the map
InitialSendCount(snapshot) ==
    (CHOOSE i \in SnapshotInputs :
        i.key = snapshot.key /\ i.msgSendRules = snapshot.msgSendRules).sendCount

\* no snapshot's send count exceeds the larger of its initial count and its
\* rule's maximum, and every re-send was started below the maximum
C23_CountBounded ==
    /\ \A n \in 1..Len(resend_snapshot) :
         LET snapshot == resend_snapshot[n]
             maxtime == snapshot.msgSendRules.repeat_send_interval_maxtime
         IN  snapshot.sendCount
               <= IF InitialSendCount(snapshot) > maxtime
                  THEN InitialSendCount(snapshot) ELSE maxtime
    /\ \A i \in 1..Len(resends) :
         resends[i].snapshot.sendCount
           <= resends[i].snapshot.msgSendRules.repeat_send_interval_maxtime

\* two re-sends under one key are at least the rule's interval apart
C23_IntervalApart ==
    \A i, j \in 1..Len(resends) :
        i < j /\ resends[i].snapshot.key = resends[j].snapshot.key
        => (resends[j].time - resends[i].time) * 1000
             >= resends[j].snapshot.msgSendRules.repeat_send_interval * 1000

\* once a tick has ended, the snapshots it found at their maximum are gone
C23_DroppedAtMax ==
    resend_task.pc \in {"sleep", "dead"}
    => \A n \in 1..Len(resend_snapshot) :
          resend_snapshot[n].key \notin resend_task.at_max

\* C23: the scheduler never re-sends a snapshot whose send count has reached
\* the rule's maximum: the count stays at most the larger of its initial value
\* and the maximum, a snapshot at its maximum is dropped by the next tick, and
\* two re-sends of a snapshot are at least the rule's interval apart
C23_ResendBounded ==
    /\ C23_CountBounded
    /\ C23_IntervalApart
    /\ C23_DroppedAtMax

\* every re-send was started for a record the repository held unconfirmed, on
\* the provider registered for the snapshot's own channel
C24_OnlyUnconfirmedOwnChannel ==
    \A i \in 1..Len(resends) :
        /\ resends[i].record # NoRecord
        /\ resends[i].record.alertitem_record_id = resends[i].snapshot.record_id
        /\ resends[i].record.is_confirm # CONFIRM_YES
        /\ resends[i].provider
             = IF resends[i].snapshot.msgChannel.channel_id = "c-mail"
               THEN "EmailProvider" ELSE "WeChatProvider"

\* once a tick has ended, the snapshots it found due with a confirmed record
\* are gone
C24_DroppedConfirmed ==
    resend_task.pc \in {"sleep", "dead"}
    => \A n \in 1..Len(resend_snapshot) :
          resend_snapshot[n].key \notin resend_task.confirmed

\* C24: once a snapshot's record is confirmed the scheduler re-sends it no
\* more and drops it at the first tick at which its interval has elapsed; a
\* re-send is started only for a record the repository reports unconfirmed,
\* and goes to the snapshot's own channel and provider
C24_ConfirmedStopsResend ==
    /\ C24_OnlyUnconfirmedOwnChannel
    /\ C24_DroppedConfirmed

\* C25: an exception raised inside a tick never stops a scheduler loop: the
\* coroutine of the loop is never left
C25_TickFailureContained == resend_task.pc # "dead"

\* C26: a scheduler loop checks a stop signal between its ticks: once the
\* application has been asked to stop, the loop starts no further tick
C26_StopsBetweenTicks ==
    [][stopping => resend_task'.ticks = resend_task.ticks]_vars

\* the coroutines with a network request in flight
InFlight == {t \in WxTasks : wx[t].pc \in {"get", "post"}}

\* C27: no lock that guards a cache is held across a network call: a
\* coroutine with a request in flight, the token request of the WeChat
\* provider in particular, does not hold the lock of the token cache
C27_NoLockAcrossNetwork == \A t \in InFlight : _lock # t

\* the positions of a coroutine's trace that are posts, and forced token requests
PostsOf(task) == {i \in 1..Len(task.trace) : task.trace[i].op = "post"}

ForcedOf(task) ==
    {i \in 1..Len(task.trace) : task.trace[i].op = "get" /\ task.trace[i].force}

\* C28: one send posts the message at most twice; the second post follows a
\* first reply with a token-expired code and exactly one forced token request
\* made between the two posts; a forced request is made for no other reason;
\* a send whose last reply has a non-zero code fails with MsgSendException and
\* a send succeeds only on a reply with code 0 to its last post; a send called
\* while the cache holds a token inside its margin posts first with that
\* token, without requesting one
C28_PostAtMostTwice ==
    \A t \in WxTasks :
        LET task == wx[t]
            posts == PostsOf(task)
            forced == ForcedOf(task)
        IN  /\ Cardinality(posts) <= 2
            /\ Len(task.codes) <= Cardinality(posts)
            /\ forced # {} =>
                  /\ Cardinality(forced) = 1
                  /\ Len(task.codes) >= 1 /\ task.codes[1] \in {40014, 42001}
                  /\ \E i \in posts : \A f \in forced : i < f
            /\ Cardinality(posts) = 2 =>
                  /\ Cardinality(forced) = 1
                  /\ \E i, j \in posts : \A f \in forced : i < f /\ f < j
            /\ task.pc = "done" /\ Len(task.codes) = 2 /\ task.codes[2] # 0
                  => task.result = "MsgSendException"
            /\ task.pc = "done" /\ Len(task.codes) >= 1
                  /\ task.codes[1] \notin {0, 40014, 42001}
                  => task.result = "MsgSendException" /\ Cardinality(posts) = 1
            /\ task.pc = "done" =>
                  (task.result = "ok"
                     <=> /\ Len(task.codes) = Cardinality(posts)
                         /\ task.codes # <<>>
                         /\ task.codes[Len(task.codes)] = 0)
            /\ task.cached # 0 /\ task.trace # <<>> =>
                  /\ task.trace[1].op = "post"
                  /\ task.trace[1].token = task.cached
                  /\ \A i \in 1..Len(task.trace) :
                        task.trace[i].op = "get" => task.trace[i].force

\* a send that found a cached token, posted with it, was told it had expired,
\* requested a token once, posted again and succeeded
C28_Witness ==
    \E t \in WxTasks :
        /\ wx[t].pc = "done"
        /\ wx[t].result = "ok"
        /\ wx[t].cached # 0
        /\ Len(wx[t].trace) = 3
        /\ wx[t].trace[2].op = "get" /\ wx[t].trace[2].force
        /\ wx[t].codes[1] \in {40014, 42001} /\ wx[t].codes[2] = 0

\* the messages _sync_loop has finished with: all it popped but the one it is
\* offering
SyncFinished ==
    IF sync_task.pc = "offer" THEN Len(sync_task.dequeued) - 1
    ELSE Len(sync_task.dequeued)

\* C31: SlaveSync drains its queue in FIFO order without retry: the messages
\* are popped in the order sync_data_to_slave was called, each at most once;
\* every message made so far is either popped or waits in the queue, in call
\* order behind all popped ones, so none is lost and none is put back; and
\* every popped message is offered once to each configured target, in the
\* order of the targets, before the next message is popped
C31_FifoDrainNoRetry ==
    LET d == sync_task.dequeued
        T == Len(alertmanager_slave_targets)
    IN  /\ \A i \in 1..Len(d) : d[i].n = i
        /\ \A i \in 1..Len(_sync_queue) : _sync_queue[i].n = Len(d) + i
        /\ Len(d) + Len(_sync_queue) = sync_task.nenq
        /\ Len(sync_task.offered) =
              SyncFinished * T + (IF sync_task.pc = "offer" THEN sync_task.target ELSE 0)
        /\ \A k \in 1..Len(sync_task.offered) :
              sync_task.offered[k] =
                  <<((k - 1) \div T) + 1, alertmanager_slave_targets[((k - 1) % T) + 1]>>

\* two messages have been offered to every target while a third, made during
\* the offers of the first, waits in the queue
C31_Witness ==
    /\ SyncFinished = 2
    /\ Len(_sync_queue) = 1
    /\ sync_task.pc = "poll"
    /\ Len(sync_task.offered) = 2 * Len(alertmanager_slave_targets)

\* the runs of the CLI that the stage issued, by their positions
RunsOf(stage) == {i \in 1..Len(cli.commands) : cli.commands[i].stage = stage}

C33_RecoverDerivedFromLine ==
    \A s \in Finished :
        LET p == push[s]
        IN  /\ p.record.alert_msg_org = <<"<line>">>
            /\ p.record.is_recover = IS_RECOVER_YES
            /\ p.response = "success"
            => /\ p.calls = [save |-> 0, mark |-> 1]
               /\ StampOf(tmp_messages, KeyOf(p)) = "True"

\* C34: a record under a forbid rule whose channel set is {"NULL"} has every
\* channel of its rule skipped as forbidden, and no provider is called for it
C34_NullChannelsForbidAll ==
    \A s \in Dispatching :
        LET p == push[s]
        IN  p.record.forbidChannels = {"NULL"} =>
               /\ \A i \in 1..Len(p.sends) : p.sends[i] = "skip"
               /\ p.msgs = <<>>

\* the records the service has made and still holds: those of the pushes in
\* the slots and those in the repository
SeenRecords ==
    {push[s].record : s \in Ingested} \cup {records[rid] : rid \in DOMAIN records}

\* C35: the event ids of create events increase strictly in arrival order
\* (alertitem_record_id is the ordinal of the push that made the record),
\* whichever path made them and also within one clock reading
C35_EventIdsIncrease ==
    \A a, b \in SeenRecords :
        /\ a.event_type = EVENT_TYPE_CREATE
        /\ b.event_type = EVENT_TYPE_CREATE
        /\ a.alertitem_record_id < b.alertitem_record_id
        => a.event_id < b.event_id

\* C36: a recover push whose key (event id, project) is the key of a stored
\* create record marks that record recovered, and mark_recovered reports one
\* affected row for it; it reports zero only when no record has the key
C36_RecoverMarksStored ==
    \A s \in Finished :
        LET p == push[s]
        IN  p.record.event_type = EVENT_TYPE_RECOVER /\ p.response = "success" =>
               /\ p.effect = 1 <=> RecordsOf(KeyOf(p)) # {}
               /\ \A rid \in RecordsOf(KeyOf(p)) :
                     /\ records[rid].is_recover = IS_RECOVER_YES
                     /\ records[rid].event_type = EVENT_TYPE_RECOVER
                     /\ records[rid].recover_time = p.record.recover_time

\* C37: the DedupCache gates persistence, not notification.  A create push
\* that found its key stamped when it persisted made no repository call and
\* stored nothing, and it went through the dispatch loop as a first-sight push
\* does: if its rule sent it to the loop, every channel of the rule was
\* visited, skipped exactly when a channel check failed, and every channel
\* that passed was rendered and handed to its provider unless the push was
\* send-suppressed
C37_DedupGatesPersistenceOnly ==
    \A s \in Finished :
        LET p == push[s]
            chs == ChannelsOf(p)
        IN  p.record.event_type # EVENT_TYPE_RECOVER /\ p.persisted # "None" =>
               /\ p.already # "None" =>
                     /\ p.calls = [save |-> 0, mark |-> 0]
                     /\ p.record.alertitem_record_id \notin DOMAIN records
               /\ p.decision = Decide(p.record)
               /\ p.decision = "dispatch" =>
                     /\ Len(p.sends) = Len(chs)
                     /\ \A i \in 1..Len(chs) :
                           /\ p.sends[i] = "skip" <=> ~PassesChecks(p.record, chs[i])
                           /\ PassesChecks(p.record, chs[i]) /\ p.record.currentIsSendMsg
                                 => /\ p.sends[i] \in ProviderOutcomes
                                    /\ \E m \in 1..Len(p.msgs) :
                                          p.msgs[m].channel_id = chs[i].channel_id

\* a duplicate create whose message the mail provider accepted: nothing was
\* saved for it
C37_Witness ==
    \E s \in Finished :
        LET p == push[s]
        IN  /\ p.record.event_type = EVENT_TYPE_CREATE
            /\ p.already = "False"
            /\ p.persisted = "dup_create"
            /\ p.decision = "dispatch"
            /\ p.sends = <<"ok">>
            /\ Len(p.msgs) = 1

\* the attempts of the mail scenario on a channel, by their positions
AttemptsOn(ch) ==
    {i \in 1..Len(attempts) : attempts[i].event.msgChannel.channel_id = ch}

\* the time of the latest attempt on a channel
LatestOn(ch) ==
    attempts[CHOOSE i \in AttemptsOn(ch) : \A j \in AttemptsOn(ch) : j <= i].time

\* C38: the throttle's window of a channel holds one slot for every attempt
\* the throttle admitted that is still inside the window, whatever became of
\* the attempt afterwards (rejected by the resend timer, failed on missing
\* configuration, failed in the SMTP exchange, sent), and none for an attempt
\* the throttle itself rejected; and the throttle rejects an attempt exactly
\* when those slots are as many as the channel's send rate
C38_SlotConsumedOnAdmission ==
    profile = "email" =>
       \A ev \in EmailEvents :
           LET ch == ev.msgChannel.channel_id
               counted ==
                   {i \in AttemptsOn(ch) :
                       /\ attempts[i].outcome # "exceeded"
                       /\ attempts[i].time + SendWindow >= LatestOn(ch)}
           IN  AttemptsOn(ch) # {} =>
                  /\ Len(_per_minute[ch]) = Cardinality(counted)
                  /\ \A i \in counted :
                        \E n \in 1..Len(_per_minute[ch]) :
                            _per_minute[ch][n] = attempts[i].time
                  /\ \A n \in AttemptsOn(ch) :
                        attempts[n].outcome = "exceeded" <=>
                           Cardinality({i \in AttemptsOn(ch) :
                                           /\ i < n
                                           /\ attempts[i].outcome # "exceeded"
                                           /\ attempts[i].time + SendWindow
                                                 >= attempts[n].time})
                              >= ev.msgChannel.send_rate

\* on a channel with two sends a minute, an attempt that failed on its
\* configuration and one the resend timer rejected used up both slots: the
\* third attempt at the same clock reading is rejected by the throttle
C38_Witness ==
    /\ profile = "email"
    /\ Len(attempts) = 3
    /\ attempts[1].time = attempts[3].time
    /\ attempts[1].outcome = "None" /\ attempts[1].ending = "config"
    /\ attempts[2].outcome = "resend"
    /\ attempts[3].outcome = "exceeded"
    /\ Len(_per_minute["c-2"]) = 2

\* C39: a create record a forbid rule of type not-show-and-send matched is
\* never handed to save_record and the repository never holds it, yet its
\* not-show flag is set and, on first sight, its key is stamped in the
\* DedupCache as a create; a create record of any other forbid type, or of
\* none, is handed to save_record on first sight and stored when the call
\* returns
C39_HiddenCreateStampedNotSaved ==
    /\ \A rid \in DOMAIN records :
          records[rid].event_type # EVENT_TYPE_RECOVER =>
             records[rid].forbidRuleType # MSG_SEND_FORBID_NOT_SHOWANDSEND
    /\ \A s \in Finished :
          LET p == push[s]
              persisted == p.persisted # "None" \/ p.calls.save = 1
          IN  p.record.event_type # EVENT_TYPE_RECOVER /\ persisted =>
                 IF p.record.forbidRuleType = MSG_SEND_FORBID_NOT_SHOWANDSEND
                 THEN /\ p.calls = [save |-> 0, mark |-> 0]
                      /\ p.record.alertitem_record_id \notin DOMAIN records
                      /\ p.record.alertitem_notshow = int(ALERTITEM_NOTSHOW_YES)
                      /\ p.already = "None" =>
                            StampOf(tmp_messages, KeyOf(p)) = "False"
                 ELSE p.already = "None" =>
                         /\ p.calls = [save |-> 1, mark |-> 0]
                         /\ p.response = "success" =>
                               /\ p.record.alertitem_record_id \in DOMAIN records
                               /\ StampOf(tmp_messages, KeyOf(p)) = "False"

\* a create record under a not-show-and-send rule seen for the first time:
\* stamped and flagged, and absent from the repository
C39_Witness ==
    \E s \in Finished :
        LET p == push[s]
        IN  /\ p.record.event_type = EVENT_TYPE_CREATE
            /\ p.record.forbidRuleType = MSG_SEND_FORBID_NOT_SHOWANDSEND
            /\ p.already = "None"
            /\ p.persisted = "not_shown"
            /\ p.response = "success"
            /\ p.record.alertitem_notshow = int(ALERTITEM_NOTSHOW_YES)
            /\ StampOf(tmp_messages, KeyOf(p)) = "False"
            /\ p.record.alertitem_record_id \notin DOMAIN records

\* C40: a task submit accepted is never left in a queue that no live worker
\* reads: whenever the caller is between two calls and the queue of the
\* server holds a task, a thread of the server is alive
C40_NoTaskStranded ==
    caller.pc = "idle" /\ wait_queues # <<>> =>
       \E t \in 1..Len(thread_pool) : is_alive(thread_pool[t])

====
